---- MODULE Spec2Model ----
(***************************************************************************)
(* Model of the exchange-rate cache service and the currency conversion    *)
(* engine of komari-theme-purcarte (src/src/services/exchangeRate.ts).     *)
(*                                                                         *)
(* JavaScript values are encoded as records tagged with a "type" field:    *)
(* undefined, null, NaN, numbers and objects.  Money amounts and rates     *)
(* are binary floating-point numbers, written as reduced fractions         *)
(* <<numerator, denominator>> and rounded to MantBits significant bits     *)
(* after every arithmetic operation (round to nearest, ties to even).      *)
(* Timestamps are integers of milliseconds (exact in a double).            *)
(*                                                                         *)
(* The pricing formatter, the remaining-value calculators and the renewal  *)
(* projection (utils/formatHelper, components/ui/remaining-value-panel,    *)
(* the home page) are pure functions of their arguments; each has a        *)
(* specification that draws the arguments from bounded sets and applies    *)
(* the function.  JavaScript strings they build are sequences of tokens:   *)
(* one token per digit or punctuation mark, one per currency identifier    *)
(* and one per Chinese word (written in pinyin with the prefix ZH_).       *)
(***************************************************************************)
EXTENDS Integers, Sequences, FiniteSets, TLC

VARIABLES cache, clock, calls, clears,
          convPc, convArgs, convResult, convBack,
          fmtPc, fmtArgs, fmtResult,
          rvPc, rvArgs, rvResult,
          rnPc, rnArgs, rnResult,
          currencySwitch, context, tips

cacheVars == <<cache, clock, calls, clears>>

convVars == <<convPc, convArgs, convResult, convBack>>

fmtVars == <<fmtPc, fmtArgs, fmtResult>>

rvVars == <<rvPc, rvArgs, rvResult>>

rnVars == <<rnPc, rnArgs, rnResult>>

billVars == <<fmtVars, rvVars, rnVars>>

uiVars == <<currencySwitch, context, tips>>

vars == <<cache, clock, calls, clears, convPc, convArgs, convResult, convBack,
          fmtPc, fmtArgs, fmtResult, rvPc, rvArgs, rvResult, rnPc, rnArgs, rnResult,
          currencySwitch, context, tips>>

-----------------------------------------------------------------------------
(* Bounds of the model *)

MaxCalls == 2

\* significant bits of a floating-point number (53 in a double)
MantBits == 5

-----------------------------------------------------------------------------
(* JavaScript values *)

JsUndefined == [type |-> "undefined"]

JsNull == [type |-> "null"]

JsNaN == [type |-> "NaN"]

JsNum(n) == [type |-> "number", v |-> n]

\* an object literal given by its set of <<key, value>> entries
JsObject(entries) == [type |-> "object", entries |-> entries]

\* truthiness: undefined, null, NaN, 0 and "" are falsy, everything else truthy
Truthy(v) ==
    CASE v.type \in {"undefined", "null", "NaN"} -> FALSE
      [] v.type = "number" -> v.v[1] # 0
      [] v.type = "string" -> v.s # ""
      [] OTHER -> TRUE

\* obj[key] on a plain object: the value of the entry, or undefined
JsGet(obj, key) ==
    IF \E e \in obj.entries : e[1] = key
    THEN (CHOOSE e \in obj.entries : e[1] = key)[2]
    ELSE JsUndefined

\* a floating-point number n/d (d > 0); <<1, 0>>, <<-1, 0>> are the
\* infinities and <<0, 0>> is NaN
F(n, d) == <<n, d>>

Abs(n) == IF n < 0 THEN -n ELSE n

Sign(n) == IF n < 0 THEN -1 ELSE IF n = 0 THEN 0 ELSE 1

RECURSIVE GCD(_, _)
GCD(a, b) == IF b = 0 THEN a ELSE GCD(b, a % b)

Pow2(k) == 2 ^ k

\* scale a/d by powers of two until 2^(MantBits-1) <= a/d < 2^MantBits;
\* the result <<a', d', e>> satisfies a/d = (a'/d') * 2^e
RECURSIVE ScaleToMantissa(_, _, _)
ScaleToMantissa(a, d, e) ==
    IF a >= d * Pow2(MantBits) THEN ScaleToMantissa(a, 2 * d, e + 1)
    ELSE IF a < d * Pow2(MantBits - 1) THEN ScaleToMantissa(2 * a, d, e - 1)
    ELSE <<a, d, e>>

\* the floating-point number nearest to n/d (d # 0), ties to even
RoundToNearest(n, d) ==
    IF n = 0 THEN F(0, 1)
    ELSE LET sc == ScaleToMantissa(Abs(n), Abs(d), 0)
             m == sc[1] \div sc[2]
             r == sc[1] % sc[2]
             up == (2 * r > sc[2]) \/ (2 * r = sc[2] /\ m % 2 = 1)
             mant == Sign(n) * Sign(d) * (IF up THEN m + 1 ELSE m)
             e == sc[3]
         IN  IF e >= 0 THEN F(mant * Pow2(e), 1)
             ELSE LET g == GCD(Abs(mant), Pow2(-e))
                  IN  F(mant \div g, Pow2(-e) \div g)

\* x / y of two numbers
fdiv(x, y) ==
    IF x[2] = 0 \/ y[2] = 0 \/ y[1] = 0
    THEN IF x[2] # 0 /\ x[1] # 0 /\ y[2] # 0
         THEN F(Sign(x[1]), 0)          \* finite non-zero / 0 is an infinity
         ELSE IF x[2] # 0 /\ y[2] = 0 /\ y[1] # 0
              THEN F(0, 1)              \* finite / infinity is 0
              ELSE IF x[2] = 0 /\ x[1] # 0 /\ y[2] # 0
                   THEN F(x[1] * (IF y[1] < 0 THEN -1 ELSE 1), 0)
                   ELSE F(0, 0)         \* 0/0, inf/inf, NaN
    ELSE RoundToNearest(x[1] * y[2], x[2] * y[1])

\* x * y of two numbers
fmul(x, y) ==
    IF x[2] = 0 \/ y[2] = 0
    THEN IF x[1] = 0 \/ y[1] = 0 THEN F(0, 0)   \* NaN operand, or inf * 0
         ELSE F(Sign(x[1]) * Sign(y[1]), 0)
    ELSE RoundToNearest(x[1] * y[1], x[2] * y[2])

-----------------------------------------------------------------------------
(* The cache: a JavaScript Map, kept as the sequence of its entries in     *)
(* insertion order.                                                        *)

MapHas(m, k) == \E i \in 1..Len(m) : m[i].key = k

MapGet(m, k) ==
    IF MapHas(m, k)
    THEN m[CHOOSE i \in 1..Len(m) : m[i].key = k].value
    ELSE JsUndefined

MapSet(m, k, v) ==
    IF MapHas(m, k)
    THEN [i \in 1..Len(m) |-> IF m[i].key = k THEN [key |-> k, value |-> v] ELSE m[i]]
    ELSE Append(m, [key |-> k, value |-> v])

MapClear(m) == << >>

CACHE_DURATION == 3600000

ApiTypes == {"exchangerate", "currency"}

cacheKey(apiType) ==
    IF apiType = "exchangerate" THEN "rates_exchangerate" ELSE "rates_currency"

-----------------------------------------------------------------------------
(* Strings of the model and String.prototype.toUpperCase on them *)

toUpperCase(s) ==
    CASE s = "usd" -> "USD"
      [] s = "cny" -> "CNY"
      [] s = "eur" -> "EUR"
      [] s = "xyz" -> "XYZ"
      [] OTHER -> s

JsStr(s) == [type |-> "string", s |-> s]

-----------------------------------------------------------------------------
(* HTTP responses of the two rate providers.  A response either rejects    *)
(* (network error), or carries a status (ok or not) and a body that either *)
(* fails to parse as JSON or parses to a JavaScript value.  "kind" labels  *)
(* the response for the properties; the code never reads it.               *)

Response(kind, rejects, ok, parses, value) ==
    [kind |-> kind, rejects |-> rejects, ok |-> ok, parses |-> parses, value |-> value]

NetworkError == Response("network", TRUE, FALSE, FALSE, JsUndefined)

HttpError == Response("status", FALSE, FALSE, TRUE, JsObject({}))

NotJson == Response("unparsable", FALSE, TRUE, FALSE, JsUndefined)

NullBody == Response("malformed", FALSE, TRUE, TRUE, JsNull)

EmptyObjectBody == Response("malformed", FALSE, TRUE, TRUE, JsObject({}))

RatesA1 == JsObject({<<"USD", JsNum(F(1, 1))>>, <<"CNY", JsNum(F(7, 1))>>})

RatesA2 == JsObject({<<"USD", JsNum(F(1, 1))>>, <<"EUR", JsNum(F(3, 4))>>})

GoodA(base, date, updated, rates) ==
    Response("wellformed", FALSE, TRUE, TRUE,
             JsObject({<<"base", JsStr(base)>>, <<"date", JsStr(date)>>,
                       <<"time_last_updated", JsNum(F(updated, 1))>>,
                       <<"rates", rates>>}))

GoodB(usd) ==
    Response("wellformed", FALSE, TRUE, TRUE, JsObject({<<"usd", JsObject(usd)>>}))

Responses(apiType) ==
    {NetworkError, HttpError, NotJson, NullBody, EmptyObjectBody} \cup
    (IF apiType = "exchangerate"
     THEN {GoodA("USD", "1970-01-01", 1, RatesA1), GoodA("USD", "1970-01-01", 2, RatesA2)}
     ELSE {GoodB({<<"usd", JsNum(F(1, 1))>>, <<"cny", JsNum(F(7, 1))>>}),
           GoodB({<<"eur", JsNum(F(3, 4))>>})})

AllResponses == UNION {Responses(apiType) : apiType \in ApiTypes}

-----------------------------------------------------------------------------
(* The two fetch functions.  Each returns [threw |-> TRUE] when the code   *)
(* throws (or the awaited promise rejects) and otherwise the table built.  *)

Threw == [threw |-> TRUE]

Returned(v) == [threw |-> FALSE, value |-> v]

\* reading a property of null or undefined raises a TypeError
PropertyReadThrows(v) == v.type \in {"null", "undefined"}

\* data.time_last_updated * 1000 (undefined * 1000 is NaN)
TimesThousand(v) ==
    IF v.type = "number" THEN JsNum(F(v.v[1] * 1000, v.v[2])) ELSE JsNaN

fetchExchangeRateAPI(resp) ==
    IF resp.rejects THEN Threw
    ELSE IF ~resp.ok THEN Threw
    ELSE IF ~resp.parses THEN Threw
    ELSE IF PropertyReadThrows(resp.value) THEN Threw
    ELSE LET data == resp.value
         IN  Returned([type |-> "object",
                       base |-> JsGet(data, "base"),
                       date |-> JsGet(data, "date"),
                       rates |-> JsGet(data, "rates"),
                       lastUpdated |-> TimesThousand(JsGet(data, "time_last_updated"))])

OneDayMs == 86400000

\* new Date().toISOString().split('T')[0], the clock counting from the epoch
ISODate(t) == IF t < OneDayMs THEN "1970-01-01" ELSE "1970-01-02"

fetchCurrencyAPI(resp, t) ==
    IF resp.rejects THEN Threw
    ELSE IF ~resp.ok THEN Threw
    ELSE IF ~resp.parses THEN Threw
    ELSE IF PropertyReadThrows(resp.value) THEN Threw
    ELSE LET usd == JsGet(resp.value, "usd")
         IN  IF PropertyReadThrows(usd) THEN Threw   \* Object.entries(undefined)
             ELSE LET upper == {<<toUpperCase(e[1]), e[2]>> : e \in usd.entries}
                      spread == IF \E e \in upper : e[1] = "USD"
                                THEN upper
                                ELSE upper \cup {<<"USD", JsNum(F(1, 1))>>}
                  IN  Returned([type |-> "object",
                                base |-> JsStr("USD"),
                                date |-> JsStr(ISODate(t)),
                                rates |-> JsObject(spread)])

-----------------------------------------------------------------------------
(* getExchangeRates: an async function.  It runs synchronously up to the   *)
(* await of the fetch (GetExchangeRates) and resumes when the fetch        *)
(* settles (FetchSettles).                                                 *)

Calls == 1..MaxCalls

IdleCall == [pc |-> "idle"]

CacheEntry(data, timestamp) == [type |-> "object", data |-> data, timestamp |-> timestamp]

\* the ids of the calls of this source that are suspended at the fetch
Suspended(apiType) ==
    {d \in Calls : calls[d].pc = "await" /\ calls[d].apiType = apiType}

\* now - cached.timestamp < 3600 (seconds taken for milliseconds)
IsFreshSeconds(cached, now) ==
    Truthy(cached) /\ now - cached.timestamp < 3600

IsFresh(cached, now) ==
    Truthy(cached) /\ now - cached.timestamp < CACHE_DURATION

\* the write is skipped when the source already has an entry
UpdateCacheIfAbsent(m, key, data, now) ==
    IF MapHas(m, key) THEN m ELSE MapSet(m, key, CacheEntry(data, now))

\* the write is skipped when the entry in the cache has a later timestamp
UpdateCacheIfNewer(m, key, data, now) ==
    IF MapHas(m, key) /\ MapGet(m, key).timestamp > now
    THEN m
    ELSE MapSet(m, key, CacheEntry(data, now))

\* this.cache.set(cacheKey, { data, timestamp: now })
UpdateCache(m, key, data, now) == MapSet(m, key, CacheEntry(data, now))

\* the catch block evicts an expired entry
EvictOnFailure(m, key, now) ==
    IF MapHas(m, key) /\ now - MapGet(m, key).timestamp >= CACHE_DURATION
    THEN SelectSeq(m, LAMBDA e : e.key # key)
    ELSE m

\* the cache after the catch block: it is not touched
CacheAfterFailure(m, key, now) == m

\* the milliseconds Date.now() has advanced since the previous call
Elapsed == {0, CACHE_DURATION - 1, CACHE_DURATION}

\* "elapsed" is the time passed since the previous call was made
GetExchangeRates(c, apiType, elapsed) ==
    /\ calls[c].pc = "idle"
    /\ \A d \in Calls : d < c => calls[d].pc # "idle"
    /\ clock' = clock + elapsed
    /\ LET key == cacheKey(apiType)
           now == clock'
           cached == MapGet(cache, key)
           frame == [apiType |-> apiType, now |-> now, cached |-> cached,
                     during |-> Suspended(apiType)]
       IN  IF IsFresh(cached, now)
           THEN calls' = [calls EXCEPT ![c] =
                    frame @@ [pc |-> "done", fetched |-> FALSE, wellformed |-> FALSE,
                              wrote |-> FALSE, result |-> cached.data]]
           ELSE calls' = [calls EXCEPT ![c] =
                    frame @@ [pc |-> "await", fetched |-> TRUE, wellformed |-> FALSE,
                              wrote |-> FALSE, result |-> JsUndefined]]
    /\ UNCHANGED <<cache, clears>>
    /\ UNCHANGED convVars
    /\ UNCHANGED <<billVars, uiVars>>

\* "wellformed" records whether the response was a well-formed payload and
\* "wrote" whether the call reached the cache write; the code reads neither
FetchSettles(c, resp) ==
    /\ calls[c].pc = "await"
    /\ resp \in Responses(calls[c].apiType)
    /\ LET call == calls[c]
           key == cacheKey(call.apiType)
           r == IF call.apiType = "exchangerate"
                THEN fetchExchangeRateAPI(resp)
                ELSE fetchCurrencyAPI(resp, clock)
       IN  IF ~r.threw
           THEN /\ cache' = UpdateCache(cache, key, r.value, call.now)
                /\ calls' = [calls EXCEPT ![c].pc = "done",
                                          ![c].wellformed = (resp.kind = "wellformed"),
                                          ![c].wrote = TRUE,
                                          ![c].result = r.value]
           ELSE /\ cache' = CacheAfterFailure(cache, key, call.now)
                /\ calls' = [calls EXCEPT ![c].pc = "done",
                                          ![c].wellformed = (resp.kind = "wellformed"),
                                          ![c].result = IF Truthy(call.cached)
                                                        THEN call.cached.data
                                                        ELSE JsNull]
    /\ UNCHANGED <<clock, clears>>
    /\ UNCHANGED convVars
    /\ UNCHANGED <<billVars, uiVars>>

\* "clears" flips at every call of clearCache
ClearCache ==
    /\ cache' = MapClear(cache)
    /\ clears' = 1 - clears
    /\ UNCHANGED <<clock, calls>>
    /\ UNCHANGED convVars
    /\ UNCHANGED <<billVars, uiVars>>

CacheInit ==
    /\ cache = << >>
    /\ clock = 0
    /\ calls = [c \in Calls |-> IdleCall]
    /\ clears = 0

CacheNext ==
    \/ \E c \in Calls, apiType \in ApiTypes, elapsed \in Elapsed :
          GetExchangeRates(c, apiType, elapsed)
    \/ \E c \in Calls, resp \in AllResponses : FetchSettles(c, resp)
    \/ ClearCache

-----------------------------------------------------------------------------
(* Currency normalisation and conversion.  The Chinese currency names of   *)
(* the source table are written in pinyin with the prefix ZH_ (ZH_RENMINBI,*)
(* ZH_MEIYUAN, ...) and the baht sign as SYM_BAHT; toUpperCase leaves them *)
(* unchanged, as it leaves the original strings.                           *)

currencyMap ==
    [k \in {"¥", "￥", "$", "€", "£", "₽", "₣", "₹", "₫", "SYM_BAHT", "₩", "₱",
            "ZH_RENMINBI", "ZH_MEIYUAN", "ZH_OUYUAN", "ZH_YINGBANG", "ZH_RIYUAN", "ZH_XIANGGANGYUAN", "ZH_GANGBI", "ZH_AOMENYUAN",
            "ZH_XINTAIBI", "ZH_XINJIAPOYUAN", "ZH_HANYUAN", "ZH_YINDULUBI", "ZH_MOXIGEBISUO", "ZH_JIANADAYUAN",
            "ZH_AODALIYAYUAN", "ZH_XINXILANYUAN", "ZH_RUISHIFALANG", "ZH_RUIDIANKELANG", "ZH_NUOWEIKELANG", "ZH_DANMAIKELANG",
            "ZH_ELUOSILUBU", "ZH_TUERQILILA", "ZH_NANFEILANTE", "ZH_AGENTINGBISUO", "ZH_ZHILIBISUO",
            "ZH_GELUNBIYABISUO", "ZH_YUENANDUN", "ZH_TAIGUOZHU", "ZH_FEILVBINBISUO", "ZH_MALAIXIYALINJITE"} |->
        CASE k \in {"¥", "￥", "ZH_RENMINBI"} -> "CNY"
          [] k \in {"$", "ZH_MEIYUAN"} -> "USD"
          [] k \in {"€", "ZH_OUYUAN"} -> "EUR"
          [] k \in {"£", "ZH_YINGBANG"} -> "GBP"
          [] k \in {"₽", "ZH_ELUOSILUBU"} -> "RUB"
          [] k \in {"₣", "ZH_RUISHIFALANG"} -> "CHF"
          [] k \in {"₹", "ZH_YINDULUBI"} -> "INR"
          [] k \in {"₫", "ZH_YUENANDUN"} -> "VND"
          [] k \in {"SYM_BAHT", "ZH_TAIGUOZHU"} -> "THB"
          [] k \in {"₩", "ZH_HANYUAN"} -> "KRW"
          [] k \in {"₱", "ZH_FEILVBINBISUO"} -> "PHP"
          [] k = "ZH_RIYUAN" -> "JPY"
          [] k \in {"ZH_XIANGGANGYUAN", "ZH_GANGBI"} -> "HKD"
          [] k = "ZH_AOMENYUAN" -> "MOP"
          [] k = "ZH_XINTAIBI" -> "TWD"
          [] k = "ZH_XINJIAPOYUAN" -> "SGD"
          [] k = "ZH_MOXIGEBISUO" -> "MXN"
          [] k = "ZH_JIANADAYUAN" -> "CAD"
          [] k = "ZH_AODALIYAYUAN" -> "AUD"
          [] k = "ZH_XINXILANYUAN" -> "NZD"
          [] k = "ZH_RUIDIANKELANG" -> "SEK"
          [] k = "ZH_NUOWEIKELANG" -> "NOK"
          [] k = "ZH_DANMAIKELANG" -> "DKK"
          [] k = "ZH_TUERQILILA" -> "TRY"
          [] k = "ZH_NANFEILANTE" -> "ZAR"
          [] k = "ZH_AGENTINGBISUO" -> "ARS"
          [] k = "ZH_ZHILIBISUO" -> "CLP"
          [] k = "ZH_GELUNBIYABISUO" -> "COP"
          [] k = "ZH_MALAIXIYALINJITE" -> "MYR"]

normalizeCurrencyCode(currencyCode) ==
    LET upper == toUpperCase(currencyCode)
    IN  IF upper \in DOMAIN currencyMap THEN currencyMap[upper] ELSE upper

\* the rate is looked up in rates.rates also for the base currency
getCurrencyRateLookupOnly(currencyCode, rates) ==
    LET normalizedCode == normalizeCurrencyCode(currencyCode)
    IN  IF PropertyReadThrows(rates.rates) THEN Threw
        ELSE LET v == JsGet(rates.rates, toUpperCase(normalizedCode))
             IN  Returned(IF Truthy(v) THEN v ELSE JsNull)

\* the rate as a number value, null when unavailable; throws when
\* rates.rates is not an object
getCurrencyRate(currencyCode, rates) ==
    LET normalizedCode == normalizeCurrencyCode(currencyCode)
    IN  IF JsStr(normalizedCode) = rates.base THEN Returned(JsNum(F(1, 1)))
        ELSE IF PropertyReadThrows(rates.rates) THEN Threw
        ELSE LET v == JsGet(rates.rates, toUpperCase(normalizedCode))
             IN  Returned(IF Truthy(v) THEN v ELSE JsNull)

\* the amount is multiplied by the target rate without the division by the
\* source rate
convertCurrencyToRateOnly(amount, fromCurrency, toCurrency, rates) ==
    IF fromCurrency = toCurrency THEN Returned(amount)
    ELSE LET fromRate == getCurrencyRate(fromCurrency, rates)
         IN  IF fromRate.threw THEN Threw
             ELSE LET toRate == getCurrencyRate(toCurrency, rates)
                  IN  IF toRate.threw THEN Threw
                      ELSE IF fromRate.value = JsNull \/ toRate.value = JsNull
                           THEN Returned(amount)
                           ELSE Returned(fmul(amount, toRate.value.v))

convertCurrency(amount, fromCurrency, toCurrency, rates) ==
    IF fromCurrency = toCurrency THEN Returned(amount)
    ELSE LET fromRate == getCurrencyRate(fromCurrency, rates)
         IN  IF fromRate.threw THEN Threw
             ELSE LET toRate == getCurrencyRate(toCurrency, rates)
                  IN  IF toRate.threw THEN Threw
                      ELSE IF fromRate.value = JsNull \/ toRate.value = JsNull
                           THEN Returned(amount)
                           ELSE Returned(fmul(fdiv(amount, fromRate.value.v),
                                              toRate.value.v))

-----------------------------------------------------------------------------
(* Conversion specification: the arguments are drawn from bounded sets,    *)
(* Convert applies convertCurrency and ConvertBack converts the result     *)
(* back into the source currency with the same table.                      *)

Amounts == {F(0, 1), F(1, 1), F(10, 1), F(100, 1)}

Currencies == {"USD", "usd", "$", "ZH_MEIYUAN", "CNY", "¥", "ZH_RENMINBI", "EUR", "€", "JPY", "XYZ"}

RatesA3 ==
    JsObject({<<"USD", JsNum(F(2, 1))>>, <<"CNY", JsNum(F(7, 1))>>,
              <<"EUR", JsNum(F(3, 4))>>, <<"JPY", JsNum(F(0, 1))>>})

RatesA4 ==
    JsObject({<<"USD", JsNum(F(5, 4))>>, <<"CNY", JsNum(F(8, 1))>>,
              <<"EUR", JsNum(F(1, 1))>>})

\* every table a successful getExchangeRates can hand to the conversion
ConvTables ==
    LET fetched ==
            {fetchExchangeRateAPI(resp) :
                resp \in Responses("exchangerate") \cup
                         {GoodA("USD", "1970-01-01", 3, RatesA3),
                          GoodA("EUR", "1970-01-01", 4, RatesA4)}}
            \cup {fetchCurrencyAPI(resp, 0) : resp \in Responses("currency")}
    IN  {r.value : r \in {q \in fetched : ~q.threw}}

NoResult == [threw |-> FALSE, value |-> F(0, 0)]

Convert ==
    /\ convPc = "args"
    /\ convResult' = convertCurrency(convArgs.amount, convArgs.fromCurrency,
                                     convArgs.toCurrency, convArgs.rates)
    /\ convPc' = "converted"
    /\ UNCHANGED <<convArgs, convBack>>
    /\ UNCHANGED cacheVars
    /\ UNCHANGED <<billVars, uiVars>>

ConvertBack ==
    /\ convPc = "converted"
    /\ ~convResult.threw
    /\ convBack' = convertCurrency(convResult.value, convArgs.toCurrency,
                                   convArgs.fromCurrency, convArgs.rates)
    /\ convPc' = "back"
    /\ UNCHANGED <<convArgs, convResult>>
    /\ UNCHANGED cacheVars
    /\ UNCHANGED <<billVars, uiVars>>

ConvIdle ==
    /\ convPc = "idle"
    /\ convArgs = [amount |-> F(0, 1), fromCurrency |-> "USD", toCurrency |-> "USD",
                   rates |-> JsNull]
    /\ convResult = NoResult
    /\ convBack = NoResult

ConvInit ==
    /\ convPc = "args"
    /\ convArgs \in [amount : Amounts, fromCurrency : Currencies,
                     toCurrency : Currencies, rates : ConvTables]
    /\ convResult = NoResult
    /\ convBack = NoResult

ConvNext == Convert \/ ConvertBack

-----------------------------------------------------------------------------
(* The pricing formatter (utils/formatHelper).                             *)

Nullish(v) == v.type \in {"undefined", "null"}

JsBool(b) == [type |-> "boolean", b |-> b]

\* a string value as a sequence of tokens
StrTokens(v) == IF v.s = "" THEN << >> ELSE <<v.s>>

DigitChar(d) == <<"0", "1", "2", "3", "4", "5", "6", "7", "8", "9">>[d + 1]

\* the decimal digits of a natural number
RECURSIVE NatToString(_)
NatToString(n) ==
    IF n < 10 THEN <<DigitChar(n)>>
    ELSE NatToString(n \div 10) \o <<DigitChar(n % 10)>>

\* String(n) of an integer
IntToString(n) == IF n < 0 THEN <<"-">> \o NatToString(-n) ELSE NatToString(n)

\* the last f digits of n, with leading zeros
RECURSIVE FractionDigits(_, _)
FractionDigits(n, f) ==
    IF f = 0 THEN << >>
    ELSE FractionDigits(n \div 10, f - 1) \o <<DigitChar(n % 10)>>

\* the fraction is cut off instead of rounded
toFixedTruncates(x, f) ==
    IF x[2] = 0
    THEN IF x[1] = 0 THEN <<"NaN">>
         ELSE IF x[1] < 0 THEN <<"-", "Infinity">> ELSE <<"Infinity">>
    ELSE LET n == (Abs(x[1]) * 10 ^ f) \div x[2]
         IN  (IF x[1] < 0 THEN <<"-">> ELSE << >>)
                 \o NatToString(n \div 10 ^ f)
                 \o (IF f = 0 THEN << >> ELSE <<".">> \o FractionDigits(n, f))

\* Number.prototype.toFixed(f) of a number below 10^21: the integer n with
\* n / 10^f nearest to |x| (the larger one of two), written with f
\* fraction digits behind the sign of x
toFixed(x, f) ==
    IF x[2] = 0
    THEN IF x[1] = 0 THEN <<"NaN">>
         ELSE IF x[1] < 0 THEN <<"-", "Infinity">> ELSE <<"Infinity">>
    ELSE LET n == (2 * Abs(x[1]) * 10 ^ f + x[2]) \div (2 * x[2])
         IN  (IF x[1] < 0 THEN <<"-">> ELSE << >>)
                 \o NatToString(n \div 10 ^ f)
                 \o (IF f = 0 THEN << >> ELSE <<".">> \o FractionDigits(n, f))

\* options?.name
OptionOf(options, name) ==
    IF Nullish(options) THEN JsUndefined
    ELSE CASE name = "convertedPrice" -> options.convertedPrice
           [] name = "targetCurrency" -> options.targetCurrency
           [] name = "showSymbol" -> options.showSymbol

\* lines 70-94: the price with its cycle label, or alone for a negative cycle
formatPriceWithCycle(price, currency, billingCycle, options) ==
    LET convertedPrice == OptionOf(options, "convertedPrice")
        targetCurrency == OptionOf(options, "targetCurrency")
        show == OptionOf(options, "showSymbol")
        finalPrice == IF Nullish(convertedPrice) THEN price ELSE convertedPrice.v
        finalCurrency == IF Nullish(targetCurrency) THEN currency ELSE targetCurrency
        showSymbol == IF Nullish(show) THEN TRUE ELSE show.b
        n == billingCycle.v[1]
        cycleStr ==
            IF n = 30 \/ n = 31 THEN <<"ZH_YUE">>
            ELSE IF n >= 89 /\ n <= 92 THEN <<"ZH_JI">>
            ELSE IF n >= 180 /\ n <= 183 THEN <<"ZH_BANNIAN">>
            ELSE IF n >= 364 /\ n <= 366 THEN <<"ZH_NIAN">>
            ELSE IF n >= 730 /\ n <= 732 THEN <<"ZH_LIANGNIAN">>
            ELSE IF n >= 1095 /\ n <= 1097 THEN <<"ZH_SANNIAN">>
            ELSE IF n >= 1825 /\ n <= 1827 THEN <<"ZH_WUNIAN">>
            ELSE IntToString(n) \o <<"ZH_TIAN">>
    IN  IF n < 0
        THEN IF showSymbol THEN StrTokens(finalCurrency) \o toFixed(finalPrice, 2)
             ELSE toFixed(finalPrice, 2)
        ELSE IF showSymbol
             THEN StrTokens(finalCurrency) \o toFixed(finalPrice, 2) \o <<"/">> \o cycleStr
             ELSE toFixed(finalPrice, 2) \o <<"/">> \o cycleStr

\* the missing-data test is made before the tests of the price
formatPriceMissingFirst(price, currency, billingCycle, options) ==
    IF ~Truthy(currency) \/ ~Truthy(billingCycle) THEN <<"N/A">>
    ELSE IF price = F(-1, 1) THEN <<"ZH_MIANFEI">>
    ELSE IF price[1] = 0 /\ price[2] # 0 THEN << >>
    ELSE formatPriceWithCycle(price, currency, billingCycle, options)

\* price is a number, currency and billingCycle are values (a string, a
\* number of days, or undefined), options is undefined or an object;
\* ZH_MIANFEI is the free marker
formatPrice(price, currency, billingCycle, options) ==
    IF price = F(-1, 1) THEN <<"ZH_MIANFEI">>
    ELSE IF price[1] = 0 /\ price[2] # 0 THEN << >>
    ELSE IF ~Truthy(currency) \/ ~Truthy(billingCycle) THEN <<"N/A">>
    ELSE formatPriceWithCycle(price, currency, billingCycle, options)

FmtPrices == {F(-1, 1), F(0, 1), F(1, 8), F(3, 16), F(10, 1), F(79, 8), F(-5, 2)}

FmtCurrencies == {JsUndefined, JsStr(""), JsStr("$"), JsStr("CNY")}

FmtCycleDays ==
    {-30, -1, 0, 1, 27, 28, 29, 30, 31, 32, 88, 89, 91, 92, 93, 179, 180, 183, 184, 185,
     363, 364, 366, 367, 400, 729, 730, 732, 733, 1094, 1095, 1097, 1098,
     1824, 1825, 1827, 1828}

FmtCycles == {JsUndefined} \cup {JsNum(F(n, 1)) : n \in FmtCycleDays}

FmtOptions ==
    {JsUndefined} \cup
    [type : {"object"},
     convertedPrice : {JsUndefined, JsNum(F(3, 1))},
     targetCurrency : {JsUndefined, JsStr("€")},
     showSymbol : {JsUndefined, JsBool(TRUE), JsBool(FALSE)}]

FormatPrice ==
    /\ fmtPc = "args"
    /\ fmtResult' = formatPrice(fmtArgs.price, fmtArgs.currency, fmtArgs.billingCycle,
                                fmtArgs.options)
    /\ fmtPc' = "done"
    /\ UNCHANGED fmtArgs
    /\ UNCHANGED <<cacheVars, convVars, rvVars, rnVars, uiVars>>

FmtIdle ==
    /\ fmtPc = "idle"
    /\ fmtArgs = [price |-> F(0, 1), currency |-> JsUndefined,
                  billingCycle |-> JsUndefined, options |-> JsUndefined]
    /\ fmtResult = << >>

FmtInit ==
    /\ fmtPc = "args"
    /\ fmtArgs \in [price : FmtPrices, currency : FmtCurrencies,
                    billingCycle : FmtCycles, options : FmtOptions]
    /\ fmtResult = << >>

FmtNext == FormatPrice

-----------------------------------------------------------------------------
(* The remaining-value calculators: calculateRemainingValue                *)
(* (utils/formatHelper), its wrapper with conversion                       *)
(* (contexts/ExchangeRateContext) and the value the RemainingValuePanel    *)
(* computes.  An expiry is null, the empty string or a date string; a date *)
(* string carries the instant it parses to.  "now" is the reading of the   *)
(* clock (new Date()) and "tz" the offset of local time from UTC.          *)

DateString(t) == [type |-> "string", s |-> "date", ms |-> t]

\* new Date(expiredAt).getTime()
getTime(expiredAt) == expiredAt.ms

Max(a, b) == IF a >= b THEN a ELSE b

\* Math.floor(a / b) and Math.ceil(a / b) for integers a and b > 0
FloorDiv(a, b) == a \div b

CeilDiv(a, b) == -((-a) \div b)

\* Math.max(0, Math.ceil((expiredDate - now) / day)) of line 124
remainingDaysCeil(expiredAt, now) ==
    Max(0, CeilDiv(getTime(expiredAt) - now, OneDayMs))

\* the daily value is taken for a cycle of 30 days
calculateRemainingValueMonthly(price, billingCycle, expiredAt, now) ==
    IF price = F(-1, 1) \/ (price[1] = 0 /\ price[2] # 0)
       \/ ~Truthy(expiredAt) \/ billingCycle <= 0
    THEN F(0, 1)
    ELSE LET remainingDays == remainingDaysCeil(expiredAt, now)
             dailyValue == fdiv(price, F(30, 1))
         IN  fmul(F(remainingDays, 1), dailyValue)

calculateRemainingValue(price, billingCycle, expiredAt, now) ==
    IF price = F(-1, 1) \/ (price[1] = 0 /\ price[2] # 0)
       \/ ~Truthy(expiredAt) \/ billingCycle <= 0
    THEN F(0, 1)
    ELSE LET remainingDays == remainingDaysCeil(expiredAt, now)
             dailyValue == fdiv(price, F(billingCycle, 1))
         IN  fmul(F(remainingDays, 1), dailyValue)

\* convertCurrency of the context: the amount itself without a rate table,
\* the target defaulting to the selected display currency
contextConvertCurrency(rates, currentCurrency, amount, fromCurrency, toCurrency) ==
    IF ~Truthy(rates) THEN Returned(amount)
    ELSE LET targetCurrency == IF Truthy(toCurrency) THEN toCurrency.s ELSE currentCurrency
         IN  convertCurrency(amount, fromCurrency, targetCurrency, rates)

calculateRemainingValueWithConversion(rates, currentCurrency, price, currency, billingCycle, expiredAt, targetCurrency, now) ==
    IF ~Truthy(rates) THEN Returned(calculateRemainingValue(price, billingCycle, expiredAt, now))
    ELSE LET finalTargetCurrency ==
                 IF Truthy(targetCurrency) THEN targetCurrency ELSE JsStr(currentCurrency)
             convertedPrice == contextConvertCurrency(rates, currentCurrency, price,
                                                      currency, finalTargetCurrency)
         IN  IF convertedPrice.threw THEN Threw
             ELSE Returned(calculateRemainingValue(convertedPrice.value, billingCycle,
                                                   expiredAt, now))

msPerDay == 86400000

\* new Date(y, m, d) of the local calendar day of the instant t
LocalMidnight(t, tz) == t - ((t + tz) % msPerDay)

mapCycleToDays(billingCycle) ==
    IF billingCycle >= 28 /\ billingCycle <= 31
    THEN [days |-> 30, label |-> <<"ZH_YUEFU">>, unit |-> <<"ZH_YUE">>]
    ELSE IF billingCycle >= 89 /\ billingCycle <= 92
    THEN [days |-> 90, label |-> <<"ZH_JIFU">>, unit |-> <<"ZH_JI">>]
    ELSE IF billingCycle >= 180 /\ billingCycle <= 184
    THEN [days |-> 180, label |-> <<"ZH_BANNIANFU">>, unit |-> <<"ZH_BANNIAN">>]
    ELSE IF billingCycle >= 364 /\ billingCycle <= 366
    THEN [days |-> 365, label |-> <<"ZH_NIANFU">>, unit |-> <<"ZH_NIAN">>]
    ELSE [days |-> Max(1, billingCycle),
          label |-> IntToString(billingCycle) \o <<"ZH_TIAN">>,
          unit |-> IntToString(billingCycle) \o <<"ZH_TIAN">>]

\* remainingDays of the panel
remainingDays(expiredAt, now, tz) ==
    IF ~Truthy(expiredAt) THEN 0
    ELSE LET todayStart == LocalMidnight(now, tz)
             expiryStart == LocalMidnight(getTime(expiredAt), tz)
             raw == FloorDiv(expiryStart - todayStart, msPerDay)
         IN  Max(0, raw)

\* remainingValue of the panel
remainingValue(price, billingCycle, expiredAt, now, tz) ==
    LET cycle == mapCycleToDays(billingCycle)
    IN  fmul(fdiv(price, F(cycle.days, 1)), F(remainingDays(expiredAt, now, tz), 1))

OneHourOfDay == msPerDay \div 24

RvTimes == {d * msPerDay + h * OneHourOfDay : d \in 0..2, h \in {0, 1, 23}}

RvExpiries == {JsNull, JsStr("")} \cup {DateString(t) : t \in RvTimes}

RvPrices == {F(-1, 1), F(0, 1), F(7, 1)}

RvCycles == {-1, 0, 1, 28, 31, 92, 364, 400}

RvTables ==
    {JsNull, fetchExchangeRateAPI(EmptyObjectBody).value,
     fetchExchangeRateAPI(GoodA("USD", "1970-01-01", 3, RatesA3)).value}

RvZones == {0, 8 * OneHourOfDay}

\* everything the three calculators return at the instant "now", with the
\* day counts that calculateRemainingValue and the panel use
RvEvaluate(a, now) ==
    [plain |-> calculateRemainingValue(a.price, a.billingCycle, a.expiredAt, now),
     conv |-> calculateRemainingValueWithConversion(a.rates, "CNY", a.price, a.currency,
                  a.billingCycle, a.expiredAt, a.targetCurrency, now),
     plainDays |-> IF Truthy(a.expiredAt) THEN remainingDaysCeil(a.expiredAt, now) ELSE 0,
     panel |-> remainingValue(a.price, a.billingCycle, a.expiredAt, now, a.tz),
     panelDays |-> remainingDays(a.expiredAt, now, a.tz)]

\* the first render of a record
RvCompute ==
    /\ rvPc = "args"
    /\ rvResult' = RvEvaluate(rvArgs, rvArgs.now)
    /\ rvPc' = "done"
    /\ UNCHANGED rvArgs
    /\ UNCHANGED <<cacheVars, convVars, fmtVars, rnVars, uiVars>>

\* a later render of the same record
RvRecompute(later) ==
    /\ rvPc = "done"
    /\ later > rvArgs.now
    /\ rvArgs' = [rvArgs EXCEPT !.now = later]
    /\ rvResult' = RvEvaluate(rvArgs, later)
    /\ UNCHANGED rvPc
    /\ UNCHANGED <<cacheVars, convVars, fmtVars, rnVars, uiVars>>

RvNoResult ==
    [plain |-> F(0, 0), conv |-> Threw, plainDays |-> 0, panel |-> F(0, 0), panelDays |-> 0]

RvIdle ==
    /\ rvPc = "idle"
    /\ rvArgs = [price |-> F(0, 1), currency |-> "USD", billingCycle |-> 0,
                 expiredAt |-> JsNull, targetCurrency |-> JsUndefined,
                 rates |-> JsNull, tz |-> 0, now |-> 0]
    /\ rvResult = RvNoResult

RvInit ==
    /\ rvPc = "args"
    /\ rvArgs \in [price : RvPrices, currency : {"USD"}, billingCycle : RvCycles,
                   expiredAt : RvExpiries, targetCurrency : {JsUndefined, JsStr("USD")},
                   rates : RvTables, tz : RvZones, now : RvTimes]
    /\ rvResult = RvNoResult

RvNext == RvCompute \/ \E later \in RvTimes : RvRecompute(later)

-----------------------------------------------------------------------------
(* The renewal projection: buildRenewalSummary of the home page.  A node   *)
(* is a record of name, price, billing_cycle, currency and expired_at; an  *)
(* expired_at that does not parse as a date is InvalidDateString.          *)

InvalidDateString == [type |-> "string", s |-> "invalid", ms |-> -1]

\* Number.isNaN(new Date(expired_at).getTime())
dateIsNaN(expired_at) == expired_at.s # "date"

\* x + y of two numbers
fadd(x, y) ==
    IF x[2] = 0 \/ y[2] = 0
    THEN IF x[2] = 0 /\ y[2] = 0
         THEN IF x[1] = y[1] THEN x ELSE F(0, 0)   \* inf - inf and NaN
         ELSE IF x[2] = 0 THEN x ELSE y
    ELSE RoundToNearest(x[1] * y[2] + y[1] * x[2], x[2] * y[2])

RenewalEvent(name, date, amount) == [name |-> name, date |-> date, amount |-> amount]

\* the anchor is advanced by floor((startMs - baseMs) / periodMs) periods
firstOccurrenceNoPlusOne(baseMs, startMs, periodMs) ==
    IF baseMs < startMs
    THEN LET k == FloorDiv(startMs - baseMs, periodMs)
         IN  baseMs + k * periodMs
    ELSE baseMs

\* lines 265-268: the anchor, moved past startMs when it lies before it
firstOccurrence(baseMs, startMs, periodMs) ==
    IF baseMs < startMs
    THEN LET k == FloorDiv(startMs - baseMs, periodMs) + 1
         IN  baseMs + k * periodMs
    ELSE baseMs

\* line 269: the instants t, t + periodMs, ... up to endMs
RECURSIVE occurrences(_, _, _)
occurrences(t, endMs, periodMs) ==
    IF t <= endMs THEN <<t>> \o occurrences(t + periodMs, endMs, periodMs)
    ELSE << >>

\* the events of one node when the test of the price is left out
nodeEventsNoPriceCheck(n, startMs, endMs, rates, currentCurrency) ==
    IF n.billing_cycle <= 0 THEN Returned(<< >>)
    ELSE IF ~Truthy(n.expired_at) THEN Returned(<< >>)
    ELSE LET periodMs == n.billing_cycle * 24 * 60 * 60 * 1000
         IN  IF dateIsNaN(n.expired_at) \/ periodMs <= 0 THEN Returned(<< >>)
             ELSE LET baseMs == firstOccurrence(getTime(n.expired_at), startMs, periodMs)
                      ts == occurrences(baseMs, endMs, periodMs)
                      converted == contextConvertCurrency(rates, currentCurrency, n.price,
                                                          n.currency, JsUndefined)
                  IN  IF Len(ts) = 0 THEN Returned(<< >>)
                      ELSE IF converted.threw THEN Threw
                      ELSE Returned([i \in 1..Len(ts) |->
                                        RenewalEvent(n.name, ts[i], converted.value)])

\* the events of one node, with the converted price (which may throw)
nodeEvents(n, startMs, endMs, rates, currentCurrency) ==
    IF n.price[1] <= 0 THEN Returned(<< >>)
    ELSE IF n.billing_cycle <= 0 THEN Returned(<< >>)
    ELSE IF ~Truthy(n.expired_at) THEN Returned(<< >>)
    ELSE LET periodMs == n.billing_cycle * 24 * 60 * 60 * 1000
         IN  IF dateIsNaN(n.expired_at) \/ periodMs <= 0 THEN Returned(<< >>)
             ELSE LET baseMs == firstOccurrence(getTime(n.expired_at), startMs, periodMs)
                      ts == occurrences(baseMs, endMs, periodMs)
                      converted == contextConvertCurrency(rates, currentCurrency, n.price,
                                                          n.currency, JsUndefined)
                  IN  IF Len(ts) = 0 THEN Returned(<< >>)
                      ELSE IF converted.threw THEN Threw
                      ELSE Returned([i \in 1..Len(ts) |->
                                        RenewalEvent(n.name, ts[i], converted.value)])

\* the loop over the nodes: the events in the order they are pushed
RECURSIVE pushedEvents(_, _, _, _, _)
pushedEvents(nodes, startMs, endMs, rates, currentCurrency) ==
    IF Len(nodes) = 0 THEN Returned(<< >>)
    ELSE LET first == nodeEvents(Head(nodes), startMs, endMs, rates, currentCurrency)
         IN  IF first.threw THEN Threw
             ELSE LET rest == pushedEvents(Tail(nodes), startMs, endMs, rates,
                                           currentCurrency)
                  IN  IF rest.threw THEN Threw
                      ELSE Returned(first.value \o rest.value)

\* total += converted, once per event pushed
RECURSIVE sumAmounts(_, _)
sumAmounts(total, events) ==
    IF Len(events) = 0 THEN total
    ELSE sumAmounts(fadd(total, Head(events).amount), Tail(events))

\* e behind the last element of a sorted sequence that is not later than e
RECURSIVE insertByDate(_, _)
insertByDate(sorted, e) ==
    IF Len(sorted) = 0 THEN <<e>>
    ELSE IF sorted[Len(sorted)].date - e.date <= 0 THEN Append(sorted, e)
    ELSE Append(insertByDate(SubSeq(sorted, 1, Len(sorted) - 1), e), sorted[Len(sorted)])

RECURSIVE sortInto(_, _)
sortInto(sorted, events) ==
    IF Len(events) = 0 THEN sorted
    ELSE sortInto(insertByDate(sorted, Head(events)), Tail(events))

\* the events are returned in the order they were pushed
sortByDateMissing(events) == events

\* events.sort((a, b) => a.date.getTime() - b.date.getTime()), a stable sort
sortByDate(events) == sortInto(<< >>, events)

buildRenewalSummary(startMs, endMs, nodes, rates, currentCurrency) ==
    LET pushed == pushedEvents(nodes, startMs, endMs, rates, currentCurrency)
    IN  IF pushed.threw THEN Threw
        ELSE Returned([total |-> sumAmounts(F(0, 1), pushed.value),
                       events |-> sortByDate(pushed.value)])

MaxNodes == 2

HalfDay == msPerDay \div 2

NodeNames == <<"n1", "n2", "n3", "n4">>

\* nodes that are projected ...
RnEligible ==
    [price : {F(10, 1)}, currency : {"USD"}, billing_cycle : {1, 2},
     expired_at : {DateString(k * HalfDay) : k \in {0, 1, 3, 4, 5, 8, 9}}]
    \cup
    [price : {F(3, 1)}, currency : {"CNY"}, billing_cycle : {1},
     expired_at : {DateString(k * HalfDay) : k \in {0, 4, 5}}]

\* ... and nodes that are skipped
RnSkipped ==
    {[price |-> F(-1, 1), currency |-> "USD", billing_cycle |-> 1,
      expired_at |-> DateString(4 * HalfDay)],
     [price |-> F(0, 1), currency |-> "USD", billing_cycle |-> 1,
      expired_at |-> DateString(4 * HalfDay)],
     [price |-> F(10, 1), currency |-> "USD", billing_cycle |-> 0,
      expired_at |-> DateString(4 * HalfDay)],
     [price |-> F(10, 1), currency |-> "USD", billing_cycle |-> 1,
      expired_at |-> JsNull],
     [price |-> F(10, 1), currency |-> "USD", billing_cycle |-> 1,
      expired_at |-> InvalidDateString]}

RnRecords == RnEligible \cup RnSkipped

\* the node lists of 1..MaxNodes nodes, named by their position
RnNodeLists ==
    UNION {{[i \in 1..k |-> [name |-> NodeNames[i]] @@ recs[i]] :
               recs \in [1..k -> RnRecords]} : k \in 1..MaxNodes}

RnStart == 4 * HalfDay

RnEnds == {4 * HalfDay, 7 * HalfDay, 8 * HalfDay}

BuildRenewalSummary ==
    /\ rnPc = "args"
    /\ rnResult' = buildRenewalSummary(rnArgs.start, rnArgs.end, rnArgs.nodes,
                                       rnArgs.rates, "CNY")
    /\ rnPc' = "done"
    /\ UNCHANGED rnArgs
    /\ UNCHANGED <<cacheVars, convVars, fmtVars, rvVars, uiVars>>

RnIdle ==
    /\ rnPc = "idle"
    /\ rnArgs = [start |-> 0, end |-> 0, nodes |-> << >>, rates |-> JsNull]
    /\ rnResult = Threw

RnInit ==
    /\ rnPc = "args"
    /\ rnArgs \in [start : {RnStart}, end : RnEnds, nodes : RnNodeLists, rates : RvTables]
    /\ rnResult = Threw

RnNext == BuildRenewalSummary

-----------------------------------------------------------------------------
(* The billing statistics of the home page: the arguments (the node list,  *)
(* the instants now, end of month and end of year, and the rate table of   *)
(* the context) are drawn from bounded sets and ComputeBilling applies the *)
(* memoised computation.  Node names are not unique.                       *)

calculateMonthlyRenewal(price, billingCycle) ==
    IF price = F(-1, 1) \/ (price[1] = 0 /\ price[2] # 0) \/ billingCycle <= 0
    THEN F(0, 1)
    ELSE fmul(fdiv(price, F(billingCycle, 1)), F(30, 1))

\* the fee of the price as it is given, whatever the rate table
calculateMonthlyRenewalUnconverted(rates, currentCurrency, price, currency, billingCycle, targetCurrency) ==
    Returned(calculateMonthlyRenewal(price, billingCycle))

calculateMonthlyRenewalWithConversion(rates, currentCurrency, price, currency, billingCycle, targetCurrency) ==
    IF ~Truthy(rates) THEN Returned(calculateMonthlyRenewal(price, billingCycle))
    ELSE LET finalTargetCurrency ==
                 IF Truthy(targetCurrency) THEN targetCurrency ELSE JsStr(currentCurrency)
             convertedPrice == contextConvertCurrency(rates, currentCurrency, price,
                                                      currency, finalTargetCurrency)
         IN  IF convertedPrice.threw THEN Threw
             ELSE Returned(calculateMonthlyRenewal(convertedPrice.value, billingCycle))

NamedAmount(name, amount) == [name |-> name, amount |-> amount]

\* filteredNodes.map(n => ({name, amount: calculateMonthlyRenewalWithConversion(...)}))
RECURSIVE monthlyRenewals(_, _, _)
monthlyRenewals(nodes, rates, currentCurrency) ==
    IF Len(nodes) = 0 THEN Returned(<< >>)
    ELSE LET n == Head(nodes)
             first == calculateMonthlyRenewalWithConversion(rates, currentCurrency, n.price,
                                                            n.currency, n.billing_cycle,
                                                            JsUndefined)
         IN  IF first.threw THEN Threw
             ELSE LET rest == monthlyRenewals(Tail(nodes), rates, currentCurrency)
                  IN  IF rest.threw THEN Threw
                      ELSE Returned(<<NamedAmount(n.name, first.value)>> \o rest.value)

\* filteredNodes.filter(n => n.price && n.price > 0)
\*              .map(n => ({name, amount: convertCurrency(n.price, n.currency)}))
RECURSIVE convertedPrices(_, _, _)
convertedPrices(nodes, rates, currentCurrency) ==
    IF Len(nodes) = 0 THEN Returned(<< >>)
    ELSE LET n == Head(nodes)
             rest == convertedPrices(Tail(nodes), rates, currentCurrency)
         IN  IF n.price[1] <= 0 THEN rest
             ELSE LET first == contextConvertCurrency(rates, currentCurrency, n.price,
                                                      n.currency, JsUndefined)
                  IN  IF first.threw \/ rest.threw THEN Threw
                      ELSE Returned(<<NamedAmount(n.name, first.value)>> \o rest.value)

\* lines 290-293: the entries of yearAggMap in insertion order, one per
\* event name, the amounts of the events of one name added up
RECURSIVE yearAggMap(_, _)
yearAggMap(acc, events) ==
    IF Len(events) = 0 THEN acc
    ELSE LET evt == Head(events)
             at == {i \in 1..Len(acc) : acc[i].name = evt.name}
         IN  yearAggMap(IF at # {}
                        THEN LET i == CHOOSE i \in at : TRUE
                             IN  [acc EXCEPT ![i] = NamedAmount(evt.name,
                                                               fadd(acc[i].amount, evt.amount))]
                        ELSE Append(acc, NamedAmount(evt.name, evt.amount)),
                        Tail(events))

\* e behind the last element of a sorted sequence whose amount is not less
RECURSIVE insertByAmount(_, _)
insertByAmount(sorted, e) ==
    IF Len(sorted) = 0 THEN <<e>>
    ELSE LET last == sorted[Len(sorted)]
             cmp == fadd(e.amount, F(-last.amount[1], last.amount[2]))
         IN  IF cmp[1] <= 0 THEN Append(sorted, e)
             ELSE Append(insertByAmount(SubSeq(sorted, 1, Len(sorted) - 1), e), last)

RECURSIVE sortIntoByAmount(_, _)
sortIntoByAmount(sorted, entries) ==
    IF Len(entries) = 0 THEN sorted
    ELSE sortIntoByAmount(insertByAmount(sorted, Head(entries)), Tail(entries))

\* .sort((a, b) => b.amount - a.amount), a stable sort
sortByAmountDescending(entries) == sortIntoByAmount(<< >>, entries)

EmptyBilling ==
    [monthlyTotal |-> F(0, 1), monthlyRemaining |-> F(0, 1), nodesSumPrice |-> F(0, 1),
     nodesRemainingYear |-> F(0, 1), monthlyPerNode |-> << >>, nodesPriceList |-> << >>,
     monthlyEvents |-> << >>, yearPerNode |-> << >>]

\* the statistics from the four computations over the node list
billingOf(monthly, month, prices, year) ==
    IF monthly.threw \/ month.threw \/ prices.threw \/ year.threw THEN Threw
    ELSE Returned(
           [monthlyTotal |-> sumAmounts(F(0, 1), monthly.value),
            monthlyRemaining |-> month.value.total,
            nodesSumPrice |-> sumAmounts(F(0, 1), prices.value),
            nodesRemainingYear |-> year.value.total,
            monthlyPerNode |-> sortByAmountDescending(monthly.value),
            nodesPriceList |-> sortByAmountDescending(prices.value),
            monthlyEvents |-> month.value.events,
            yearPerNode |-> sortByAmountDescending(yearAggMap(<< >>, year.value.events))])

billing(now, endOfMonth, endOfYear, filteredNodes, rates, currentCurrency) ==
    IF Len(filteredNodes) = 0 THEN Returned(EmptyBilling)
    ELSE billingOf(monthlyRenewals(filteredNodes, rates, currentCurrency),
                   buildRenewalSummary(now, endOfMonth, filteredNodes, rates,
                                       currentCurrency),
                   convertedPrices(filteredNodes, rates, currentCurrency),
                   buildRenewalSummary(now, endOfYear, filteredNodes, rates,
                                       currentCurrency))

BillRecords ==
    {[price |-> F(10, 1), currency |-> "USD", billing_cycle |-> 1,
      expired_at |-> DateString(4 * HalfDay)],
     [price |-> F(10, 1), currency |-> "USD", billing_cycle |-> 2,
      expired_at |-> DateString(5 * HalfDay)],
     [price |-> F(3, 1), currency |-> "CNY", billing_cycle |-> 1,
      expired_at |-> DateString(3 * HalfDay)],
     [price |-> F(3, 1), currency |-> "CNY", billing_cycle |-> 3,
      expired_at |-> DateString(9 * HalfDay)],
     [price |-> F(-1, 1), currency |-> "USD", billing_cycle |-> 1,
      expired_at |-> DateString(4 * HalfDay)],
     [price |-> F(10, 1), currency |-> "USD", billing_cycle |-> 1,
      expired_at |-> JsNull]}

BillNames == {"n1", "n2"}

\* the lists of up to MaxNodes nodes, every node with one of the names
BillNodeLists ==
    UNION {{[i \in 1..k |-> [name |-> names[i]] @@ recs[i]] :
               names \in [1..k -> BillNames], recs \in [1..k -> BillRecords]} :
           k \in 0..MaxNodes}

BillMonthEnds == {5 * HalfDay, 8 * HalfDay}

BillYearEnd == 8 * HalfDay

ComputeBilling ==
    /\ rnPc = "billArgs"
    /\ rnResult' = billing(rnArgs.start, rnArgs.endOfMonth, rnArgs.end, rnArgs.nodes,
                           rnArgs.rates, "CNY")
    /\ rnPc' = "billed"
    /\ UNCHANGED rnArgs
    /\ UNCHANGED <<cacheVars, convVars, fmtVars, rvVars, uiVars>>

BillInit ==
    /\ rnPc = "billArgs"
    /\ rnArgs \in [start : {RnStart}, endOfMonth : BillMonthEnds, end : {BillYearEnd},
                   nodes : BillNodeLists, rates : RvTables]
    /\ rnResult = Threw

-----------------------------------------------------------------------------
(* The monetary displays: formatCurrency (utils/formatHelper), the         *)
(* formatters of the exchange-rate context and the components              *)
(* RemainingValueDisplay and MonthlyRenewalDisplay                         *)
(* (components/ui/currency-display), with loading false.  The record       *)
(* displayed and the settings are drawn from bounded sets.                 *)

\* symbolMap of ExchangeRateService.getCurrencySymbol
symbolMap ==
    [k \in {"ZH_RENMINBI", "ZH_MEIYUAN", "ZH_OUYUAN", "ZH_YINGBANG", "ZH_RIYUAN"} |->
        CASE k = "ZH_RENMINBI" -> "￥"
          [] k = "ZH_MEIYUAN" -> "$"
          [] k = "ZH_OUYUAN" -> "€"
          [] k = "ZH_YINGBANG" -> "£"
          [] k = "ZH_RIYUAN" -> "¥"]

getCurrencySymbol(currencyCode) ==
    IF currencyCode \in DOMAIN symbolMap THEN symbolMap[currencyCode] ELSE currencyCode

\* getCurrencySymbol of the context
contextGetCurrencySymbol(currentCurrency, currencyCode) ==
    getCurrencySymbol(IF Truthy(currencyCode) THEN currencyCode.s ELSE currentCurrency)

\* the options handed to formatPrice and formatCurrency
ShowSymbolOption(showSymbol) ==
    [type |-> "object", convertedPrice |-> JsUndefined, targetCurrency |-> JsUndefined,
     showSymbol |-> showSymbol]

\* x <= 0 of a number
NotPositive(x) == IF x[2] = 0 THEN x[1] < 0 ELSE x[1] <= 0

\* options is undefined or an object with the key showSymbol; decimalPlaces
\* is not passed
formatCurrency(amount, currency, options) ==
    IF amount = F(-1, 1) THEN <<"ZH_MIANFEI">>
    ELSE IF amount[1] = 0 /\ amount[2] # 0 THEN <<"0">>
    ELSE LET show == OptionOf(options, "showSymbol")
             showSymbol == IF Nullish(show) THEN TRUE ELSE show.b
             formattedAmount == toFixed(amount, 2)
         IN  IF showSymbol THEN StrTokens(JsStr(currency)) \o formattedAmount
             ELSE formattedAmount

formatPriceWithConversion(rates, currentCurrency, enableCurrencySymbol, price, currency, billingCycle, targetCurrency) ==
    IF ~Truthy(rates)
    THEN Returned(formatPrice(price, JsStr(currency), JsNum(F(billingCycle, 1)),
                              ShowSymbolOption(JsBool(enableCurrencySymbol))))
    ELSE LET finalTargetCurrency ==
                 IF Truthy(targetCurrency) THEN targetCurrency ELSE JsStr(currentCurrency)
             convertedPrice == contextConvertCurrency(rates, currentCurrency, price,
                                                      currency, finalTargetCurrency)
             currencySymbol == contextGetCurrencySymbol(currentCurrency, finalTargetCurrency)
         IN  IF convertedPrice.threw THEN Threw
             ELSE Returned(formatPrice(convertedPrice.value, JsStr(currencySymbol),
                                       JsNum(F(billingCycle, 1)),
                                       ShowSymbolOption(JsBool(enableCurrencySymbol))))

\* without a rate table the amount carries the symbol of the target currency
formatCurrencyTargetSymbol(rates, currentCurrency, enableCurrencySymbol, amount, currency, targetCurrency, options) ==
    LET finalTargetCurrency ==
            IF Truthy(targetCurrency) THEN targetCurrency ELSE JsStr(currentCurrency)
        convertedAmount == contextConvertCurrency(rates, currentCurrency, amount,
                                                  currency, finalTargetCurrency)
        currencySymbol == contextGetCurrencySymbol(currentCurrency, finalTargetCurrency)
        show == OptionOf(options, "showSymbol")
    IN  IF convertedAmount.threw THEN Threw
        ELSE Returned(formatCurrency(convertedAmount.value, currencySymbol,
                         ShowSymbolOption(IF Nullish(show)
                                          THEN JsBool(enableCurrencySymbol)
                                          ELSE show)))

\* lines 98-126; {showSymbol: enableCurrencySymbol, ...options} takes
\* showSymbol from options when options is an object
formatCurrencyWithConversion(rates, currentCurrency, enableCurrencySymbol, amount, currency, targetCurrency, options) ==
    IF ~Truthy(rates)
    THEN Returned(formatCurrency(amount, currency,
                     IF Nullish(options) THEN ShowSymbolOption(JsBool(enableCurrencySymbol))
                     ELSE options))
    ELSE LET finalTargetCurrency ==
                 IF Truthy(targetCurrency) THEN targetCurrency ELSE JsStr(currentCurrency)
             convertedAmount == contextConvertCurrency(rates, currentCurrency, amount,
                                                       currency, finalTargetCurrency)
             currencySymbol == contextGetCurrencySymbol(currentCurrency, finalTargetCurrency)
             show == OptionOf(options, "showSymbol")
         IN  IF convertedAmount.threw THEN Threw
             ELSE Returned(formatCurrency(convertedAmount.value, currencySymbol,
                              ShowSymbolOption(IF Nullish(show)
                                               THEN JsBool(enableCurrencySymbol)
                                               ELSE show)))

\* what a component renders: nothing, or a text
NotRendered == [rendered |-> FALSE, text |-> << >>]

Rendered(text) == [rendered |-> TRUE, text |-> text]

\* RemainingValueDisplay with loading false: the text behind the label
RemainingValueDisplay(rates, currentCurrency, enableCurrencySymbol, node, targetCurrency, showSymbol, now) ==
    LET remaining ==
            IF ~Truthy(node.expired_at) THEN Returned(F(0, 1))
            ELSE calculateRemainingValueWithConversion(rates, currentCurrency, node.price,
                     node.currency, node.billing_cycle, node.expired_at, targetCurrency, now)
    IN  IF remaining.threw THEN Threw
        ELSE LET displayValue ==
                     IF NotPositive(remaining.value) THEN Returned(<<"ZH_WUSHENGYUJIAZHI">>)
                     ELSE formatCurrencyWithConversion(rates, currentCurrency,
                              enableCurrencySymbol, remaining.value, node.currency,
                              targetCurrency, ShowSymbolOption(showSymbol))
             IN  IF displayValue.threw THEN Threw
                 ELSE IF node.price = F(-1, 1) \/ (node.price[1] = 0 /\ node.price[2] # 0)
                         \/ ~Truthy(node.expired_at)
                      THEN Returned(NotRendered)
                      ELSE Returned(Rendered(displayValue.value))

\* MonthlyRenewalDisplay with loading false: the text ahead of the unit
MonthlyRenewalDisplay(rates, currentCurrency, enableCurrencySymbol, price, currency, billingCycle, targetCurrency, showSymbol) ==
    LET monthlyAmount ==
            calculateMonthlyRenewalWithConversion(rates, currentCurrency, price, currency,
                                                  billingCycle, targetCurrency)
    IN  IF monthlyAmount.threw THEN Threw
        ELSE LET displayValue ==
                     IF NotPositive(monthlyAmount.value) THEN Returned(<<"0">>)
                     ELSE formatCurrencyWithConversion(rates, currentCurrency,
                              enableCurrencySymbol, monthlyAmount.value, currency,
                              targetCurrency, ShowSymbolOption(showSymbol))
             IN  IF displayValue.threw THEN Threw
                 ELSE IF price = F(-1, 1) \/ (price[1] = 0 /\ price[2] # 0)
                         \/ billingCycle <= 0
                      THEN Returned(NotRendered)
                      ELSE Returned(Rendered(displayValue.value))

\* everything the context and the two components return for one record
DispEvaluate(a) ==
    [convert |-> contextConvertCurrency(a.rates, "CNY", a.price, a.currency,
                                        a.targetCurrency),
     price |-> formatPriceWithConversion(a.rates, "CNY", a.enableCurrencySymbol, a.price,
                                         a.currency, a.billingCycle, a.targetCurrency),
     amount |-> formatCurrencyWithConversion(a.rates, "CNY", a.enableCurrencySymbol,
                    a.price, a.currency, a.targetCurrency, a.options),
     remaining |-> calculateRemainingValueWithConversion(a.rates, "CNY", a.price,
                       a.currency, a.billingCycle, a.expiredAt, a.targetCurrency, a.now),
     monthly |-> calculateMonthlyRenewalWithConversion(a.rates, "CNY", a.price, a.currency,
                     a.billingCycle, a.targetCurrency),
     remainingShown |-> RemainingValueDisplay(a.rates, "CNY", a.enableCurrencySymbol,
                            [price |-> a.price, currency |-> a.currency,
                             billing_cycle |-> a.billingCycle, expired_at |-> a.expiredAt],
                            a.targetCurrency, OptionOf(a.options, "showSymbol"), a.now),
     monthlyShown |-> MonthlyRenewalDisplay(a.rates, "CNY", a.enableCurrencySymbol, a.price,
                          a.currency, a.billingCycle, a.targetCurrency,
                          OptionOf(a.options, "showSymbol"))]

DispPrices == {F(-1, 1), F(0, 1), F(7, 1), F(5, 2)}

DispCurrencies == {"USD", "$", "CNY", "EUR"}

DispCycles == {0, 1, 3, 30}

DispTargets == {JsUndefined, JsStr("ZH_MEIYUAN"), JsStr("EUR")}

DispOptions ==
    {JsUndefined, ShowSymbolOption(JsUndefined), ShowSymbolOption(JsBool(TRUE)),
     ShowSymbolOption(JsBool(FALSE))}

DispNow == msPerDay

DispExpiries == {JsNull, DateString(0), DateString(msPerDay + 1), DateString(3 * msPerDay)}

Display ==
    /\ rvPc = "dispArgs"
    /\ rvResult' = DispEvaluate(rvArgs)
    /\ rvPc' = "displayed"
    /\ UNCHANGED rvArgs
    /\ UNCHANGED <<cacheVars, convVars, fmtVars, rnVars, uiVars>>

DispInit ==
    /\ rvPc = "dispArgs"
    /\ rvArgs \in [price : DispPrices, currency : DispCurrencies, billingCycle : DispCycles,
                   expiredAt : DispExpiries, targetCurrency : DispTargets,
                   rates : RvTables, now : {DispNow},
                   enableCurrencySymbol : BOOLEAN, options : DispOptions]
    /\ rvResult = RvNoResult

DispNext == Display

\* the home page shows the node at position i of the list
ShowNode(i) ==
    /\ rnPc \in {"billArgs", "billed"}
    /\ rvPc = "idle"
    /\ i \in 1..Len(rnArgs.nodes)
    /\ rvArgs' = [price |-> rnArgs.nodes[i].price, currency |-> rnArgs.nodes[i].currency,
                  billingCycle |-> rnArgs.nodes[i].billing_cycle,
                  expiredAt |-> rnArgs.nodes[i].expired_at,
                  targetCurrency |-> JsUndefined, rates |-> rnArgs.rates,
                  now |-> rnArgs.start, enableCurrencySymbol |-> TRUE,
                  options |-> JsUndefined]
    /\ rvResult' = DispEvaluate(rvArgs')
    /\ rvPc' = "displayed"
    /\ UNCHANGED <<cacheVars, convVars, fmtVars, rnVars, uiVars>>

BillNext == ComputeBilling \/ \E i \in 1..MaxNodes : ShowNode(i)

-----------------------------------------------------------------------------
(* Specifications *)

BillIdle == FmtIdle /\ RvIdle /\ RnIdle

-----------------------------------------------------------------------------
(* The currency switch hook (hooks/useCurrencySwitch): the selected        *)
(* display currency, the configured default and the entry of localStorage  *)
(* under STORAGE_KEY (null when the key is absent).  An access to          *)
(* localStorage may throw (storage disabled, quota exceeded).              *)

STORAGE_KEY == "komari_selected_currency"

SwitchState(currentCurrency, defaultCurrency, localStorage, last) ==
    [currentCurrency |-> currentCurrency, defaultCurrency |-> defaultCurrency,
     localStorage |-> localStorage, last |-> last]

LastCall(op, value, threw) == [op |-> op, value |-> value, threw |-> threw]

\* the values switchCurrency is called with, and the configured defaults
SwitchValues == {"", "ZH_RENMINBI", "ZH_MEIYUAN", "ZH_OUYUAN"}

DefaultCurrencies == {"ZH_RENMINBI", "ZH_MEIYUAN", "ZH_OUYUAN"}

\* localStorage.getItem(STORAGE_KEY), which may throw
getItem(localStorage, ok) == IF ok THEN Returned(localStorage) ELSE Threw

\* lines 41-48: the initial state
initialCurrency(defaultCurrency, localStorage, ok) ==
    LET saved == getItem(localStorage, ok)
    IN  IF saved.threw THEN defaultCurrency
        ELSE IF Truthy(saved.value) THEN saved.value.s ELSE defaultCurrency

\* lines 51-60: the effect run at mount and when defaultCurrency changes
defaultEffect(currentCurrency, defaultCurrency, localStorage, ok) ==
    LET saved == getItem(localStorage, ok)
    IN  IF saved.threw THEN defaultCurrency
        ELSE IF ~Truthy(saved.value) THEN defaultCurrency ELSE currentCurrency

\* lines 63-66; setItem may throw after the state has been set
SwitchCurrency(currencyValue, ok) ==
    /\ currencySwitch' =
          [currencySwitch EXCEPT
              !.currentCurrency = currencyValue,
              !.localStorage = IF ok THEN JsStr(currencyValue) ELSE @,
              !.last = LastCall("switchCurrency", currencyValue, ~ok)]
    /\ UNCHANGED <<cacheVars, convVars, billVars, context, tips>>

\* lines 74-77; removeItem may throw after the state has been set
ResetToDefault(ok) ==
    /\ currencySwitch' =
          [currencySwitch EXCEPT
              !.currentCurrency = currencySwitch.defaultCurrency,
              !.localStorage = IF ok THEN JsNull ELSE @,
              !.last = LastCall("resetToDefault", "", ~ok)]
    /\ UNCHANGED <<cacheVars, convVars, billVars, context, tips>>

\* the configured default changes and the effect of lines 51-60 runs
ChangeDefaultCurrency(defaultCurrency, ok) ==
    /\ defaultCurrency # currencySwitch.defaultCurrency
    /\ currencySwitch' =
          [currencySwitch EXCEPT
              !.defaultCurrency = defaultCurrency,
              !.currentCurrency = defaultEffect(@, defaultCurrency,
                                                currencySwitch.localStorage, ok),
              !.last = LastCall("defaultCurrency", defaultCurrency, FALSE)]
    /\ UNCHANGED <<cacheVars, convVars, billVars, context, tips>>

SwitchIdle == currencySwitch = SwitchState("", "", JsNull, LastCall("none", "", FALSE))

\* the hook is mounted: the initial state, then the effect
SwitchInit ==
    \E defaultCurrency \in DefaultCurrencies, saved \in {JsNull} \cup {JsStr(v) : v \in SwitchValues}, okInit, okEffect \in BOOLEAN :
        currencySwitch = SwitchState(defaultEffect(initialCurrency(defaultCurrency, saved, okInit),
                                                   defaultCurrency, saved, okEffect),
                                     defaultCurrency, saved, LastCall("none", "", FALSE))

SwitchNext ==
    \/ \E v \in SwitchValues, ok \in BOOLEAN : SwitchCurrency(v, ok)
    \/ \E ok \in BOOLEAN : ResetToDefault(ok)
    \/ \E d \in DefaultCurrencies, ok \in BOOLEAN : ChangeDefaultCurrency(d, ok)

-----------------------------------------------------------------------------
(* The exchange-rate context (contexts/ExchangeRateContext): the state of  *)
(* useExchangeRateInternal, the configured provider, the pending run of    *)
(* the effect that calls fetchRates, the time, and the fetchRates calls    *)
(* suspended at the service call.  A table is tagged with the provider it  *)
(* was obtained from.  The service call settles with a table or with null; *)
(* it never rejects.                                                       *)

MaxFetches == 2

MaxHours == 2

ONE_HOUR == 60 * 60 * 1000

Fetches == 1..MaxFetches

IdleFetch == [pc |-> "idle"]

\* a table obtained from a provider
TableOf(apiType) == [type |-> "object", api |-> apiType]

\* the fetchRates calls suspended at the service call
SuspendedFetches == {f \in Fetches : context.fetches[f].pc = "await"}

\* lines 26-28: the call returns at once
SkipsFetch(force) ==
    /\ ~force
    /\ Truthy(context.rates)
    /\ context.now - context.lastFetched < ONE_HOUR

\* the effect runs whenever currencyApi, rates or lastFetched has changed
EffectAfter(old, new) ==
    old.effect \/ new.rates # old.rates \/ new.lastFetched # old.lastFetched
               \/ new.currencyApi # old.currencyApi

\* lines 22-34: fetchRates up to the await, as call f
StartFetch(f, force) ==
    IF SkipsFetch(force) THEN context
    ELSE [context EXCEPT !.loading = TRUE,
                         !.error = JsNull,
                         !.fetches[f] = [pc |-> "await", api |-> context.currencyApi,
                                         now |-> context.now]]

\* the effect of lines 53-55 calls fetchRates()
RunEffect(f) ==
    /\ context.effect
    /\ context.fetches[f].pc = "idle"
    /\ \A g \in Fetches : g < f => context.fetches[g].pc # "idle"
    /\ context' = [StartFetch(f, FALSE) EXCEPT !.effect = FALSE]
    /\ UNCHANGED <<cacheVars, convVars, billVars, currencySwitch, tips>>

\* a consumer of the context calls fetchRates(true)
Refresh(f) ==
    /\ ~context.effect
    /\ context.fetches[f].pc = "idle"
    /\ \A g \in Fetches : g < f => context.fetches[g].pc # "idle"
    /\ context' = StartFetch(f, TRUE)
    /\ UNCHANGED <<cacheVars, convVars, billVars, currencySwitch, tips>>

\* lines 35-48: the service call of call f settles with a table of the
\* provider the call was made for, or with null
FetchResolves(f, ok) ==
    /\ context.fetches[f].pc = "await"
    /\ LET call == context.fetches[f]
           settled ==
               IF ok
               THEN [context EXCEPT !.rates = TableOf(call.api),
                                    !.lastFetched = call.now,
                                    !.loading = FALSE,
                                    !.fetches[f] = IdleFetch]
               ELSE [context EXCEPT !.error = JsStr("Failed to fetch exchange rates"),
                                    !.loading = FALSE,
                                    !.fetches[f] = IdleFetch]
       IN  context' = [settled EXCEPT !.effect = EffectAfter(context, settled)]
    /\ UNCHANGED <<cacheVars, convVars, billVars, currencySwitch, tips>>

\* the configured provider changes
ChangeCurrencyApi(apiType) ==
    /\ apiType # context.currencyApi
    /\ context' = [context EXCEPT !.currencyApi = apiType, !.effect = TRUE]
    /\ UNCHANGED <<cacheVars, convVars, billVars, currencySwitch, tips>>

\* an hour passes
HourPasses ==
    /\ context.now < MaxHours * ONE_HOUR
    /\ context' = [context EXCEPT !.now = @ + ONE_HOUR]
    /\ UNCHANGED <<cacheVars, convVars, billVars, currencySwitch, tips>>

ContextIdle == context = << >>

\* the provider is mounted: lines 8-11, the effect not yet run
ContextInit ==
    \E apiType \in ApiTypes :
        context = [rates |-> JsNull, loading |-> FALSE, error |-> JsNull, lastFetched |-> 0,
                   currencyApi |-> apiType, effect |-> TRUE, now |-> ONE_HOUR,
                   fetches |-> [f \in Fetches |-> IdleFetch]]

ContextNext ==
    \/ \E f \in Fetches : RunEffect(f)
    \/ \E f \in Fetches : Refresh(f)
    \/ \E f \in Fetches, ok \in BOOLEAN : FetchResolves(f, ok)
    \/ \E apiType \in ApiTypes : ChangeCurrencyApi(apiType)
    \/ HourPasses

-----------------------------------------------------------------------------
(* The Tips popover (components/ui/tips) on a desktop: isOpen, the refs    *)
(* openTimer and closeTimer (null or a timer id), the timers of the window *)
(* that are pending, and whether the component is mounted.  Timer ids are  *)
(* the positive integers in the order of the setTimeout calls.  "hover"    *)
(* is the id of the timer set by the latest hover event and "fired" the id *)
(* of the timer that fired last; the code reads neither.                   *)

MaxTimers == 5

\* a pending timer of the window: its id and the value its callback sets
Timer(id, open) == [id |-> id, open |-> open]

clearTimeout(pending, ref) == {t \in pending : JsNum(F(t.id, 1)) # ref}

\* only the open timer is cleared
clearTimersOpenOnly(t) ==
    [t EXCEPT !.pending = IF Truthy(t.openTimer) THEN clearTimeout(@, t.openTimer) ELSE @,
              !.openTimer = IF Truthy(t.openTimer) THEN JsNull ELSE @]

\* lines 41-50
clearTimers(t) ==
    LET afterOpen ==
            [t EXCEPT !.pending = IF Truthy(t.openTimer) THEN clearTimeout(@, t.openTimer)
                                  ELSE @,
                      !.openTimer = IF Truthy(t.openTimer) THEN JsNull ELSE @]
    IN  [afterOpen EXCEPT
            !.pending = IF Truthy(afterOpen.closeTimer)
                        THEN clearTimeout(@, afterOpen.closeTimer) ELSE @,
            !.closeTimer = IF Truthy(afterOpen.closeTimer) THEN JsNull ELSE @]

\* window.setTimeout(() => setIsOpen(open), delay): the timer is pending
\* and the next id is taken
setTimeout(t, open) ==
    [t EXCEPT !.pending = @ \cup {Timer(t.nextId, open)},
              !.hover = t.nextId,
              !.nextId = @ + 1]

\* lines 56-59: mouse-enter on the trigger or on the content
ScheduleOpen ==
    /\ tips.mounted
    /\ tips.nextId <= MaxTimers
    /\ LET cleared == clearTimers(tips)
       IN  tips' = [setTimeout(cleared, TRUE) EXCEPT
                       !.openTimer = JsNum(F(cleared.nextId, 1))]
    /\ UNCHANGED <<cacheVars, convVars, billVars, currencySwitch, context>>

\* lines 61-64: mouse-leave
ScheduleClose ==
    /\ tips.mounted
    /\ tips.nextId <= MaxTimers
    /\ LET cleared == clearTimers(tips)
       IN  tips' = [setTimeout(cleared, FALSE) EXCEPT
                       !.closeTimer = JsNum(F(cleared.nextId, 1))]
    /\ UNCHANGED <<cacheVars, convVars, billVars, currencySwitch, context>>

\* lines 66-69: a click on the trigger
HandleInteraction ==
    /\ tips.mounted
    /\ tips' = [tips EXCEPT !.isOpen = ~@]
    /\ UNCHANGED <<cacheVars, convVars, billVars, currencySwitch, context>>

\* onOpenChange of the popover: it is dismissed from outside
OnOpenChange(open) ==
    /\ tips.mounted
    /\ tips.isOpen # open
    /\ tips' = [tips EXCEPT !.isOpen = open]
    /\ UNCHANGED <<cacheVars, convVars, billVars, currencySwitch, context>>

\* a pending timer fires and its callback sets isOpen
TimerFires(t) ==
    /\ t \in tips.pending
    /\ tips' = [tips EXCEPT !.pending = @ \ {t},
                            !.isOpen = t.open,
                            !.fired = t.id]
    /\ UNCHANGED <<cacheVars, convVars, billVars, currencySwitch, context>>

\* lines 52-54: the cleanup of the effect
Unmount ==
    /\ tips.mounted
    /\ tips' = [clearTimers(tips) EXCEPT !.mounted = FALSE]
    /\ UNCHANGED <<cacheVars, convVars, billVars, currencySwitch, context>>

TipsIdle == tips = << >>

TipsInit ==
    tips = [isOpen |-> FALSE, openTimer |-> JsNull, closeTimer |-> JsNull, pending |-> {},
            nextId |-> 1, hover |-> 0, fired |-> 0, mounted |-> TRUE]

TipsNext ==
    \/ ScheduleOpen
    \/ ScheduleClose
    \/ HandleInteraction
    \/ \E open \in BOOLEAN : OnOpenChange(open)
    \/ \E id \in 1..MaxTimers, open \in BOOLEAN : TimerFires(Timer(id, open))
    \/ Unmount

UiIdle == SwitchIdle /\ ContextIdle /\ TipsIdle

Init == CacheInit /\ ConvIdle /\ BillIdle /\ UiIdle

Next == CacheNext

Spec == Init /\ [][Next]_vars

ConvSpecInit == ConvInit /\ CacheInit /\ BillIdle /\ UiIdle

ConvSpec == ConvSpecInit /\ [][ConvNext]_vars

FmtSpecInit == FmtInit /\ CacheInit /\ ConvIdle /\ RvIdle /\ RnIdle /\ UiIdle

FmtSpec == FmtSpecInit /\ [][FmtNext]_vars

RvSpecInit == RvInit /\ CacheInit /\ ConvIdle /\ FmtIdle /\ RnIdle /\ UiIdle

RvSpec == RvSpecInit /\ [][RvNext]_vars

RnSpecInit == RnInit /\ CacheInit /\ ConvIdle /\ FmtIdle /\ RvIdle /\ UiIdle

RnSpec == RnSpecInit /\ [][RnNext]_vars

BillSpecInit == BillInit /\ CacheInit /\ ConvIdle /\ FmtIdle /\ RvIdle /\ UiIdle

BillSpec == BillSpecInit /\ [][BillNext]_vars

DispSpecInit == DispInit /\ CacheInit /\ ConvIdle /\ FmtIdle /\ RnIdle /\ UiIdle

DispSpec == DispSpecInit /\ [][DispNext]_vars

ContextSpecInit == ContextInit /\ CacheInit /\ ConvIdle /\ BillIdle /\ SwitchIdle /\ TipsIdle

ContextSpec == ContextSpecInit /\ [][ContextNext]_vars

\* the effect of a render is run, and the service call of every suspended
\* fetchRates settles
ContextFairness ==
    /\ WF_vars(\E f \in Fetches : RunEffect(f))
    /\ \A f \in Fetches : WF_vars(\E ok \in BOOLEAN : FetchResolves(f, ok))

FairContextSpec == ContextSpecInit /\ [][ContextNext]_vars /\ ContextFairness

TipsSpecInit == TipsInit /\ CacheInit /\ ConvIdle /\ BillIdle /\ SwitchIdle /\ ContextIdle

TipsSpec == TipsSpecInit /\ [][TipsNext]_vars

SwitchSpecInit == SwitchInit /\ CacheInit /\ ConvIdle /\ BillIdle /\ ContextIdle /\ TipsIdle

SwitchSpec == SwitchSpecInit /\ [][SwitchNext]_vars

-----------------------------------------------------------------------------
(* Properties of the rate cache service *)

\* the cache key of a source, as the properties name it
KeyOf == [exchangerate |-> "rates_exchangerate", currency |-> "rates_currency"]

OneHourMs == 60 * 60 * 1000

EntriesFor(m, k) == {i \in 1..Len(m) : m[i].key = k}

HasEntry(m, k) == EntriesFor(m, k) # {}

EntryOf(m, k) == m[CHOOSE i \in EntriesFor(m, k) : TRUE].value

\* call c is resumed by the settling of its fetch in this step
Settles(c) == calls[c].pc = "await" /\ calls'[c].pc = "done"

\* call c is started in this step
Starts(c) == calls[c].pc = "idle" /\ calls'[c].pc # "idle"

\* the tables of the well-formed responses of a source
GoodTables(apiType) ==
    IF apiType = "exchangerate"
    THEN {fetchExchangeRateAPI(resp).value :
             resp \in {q \in Responses(apiType) : q.kind = "wellformed"}}
    ELSE {fetchCurrencyAPI(resp, t).value :
             resp \in {q \in Responses(apiType) : q.kind = "wellformed"},
             t \in {0, OneDayMs}}

\* C1: whenever the fetch of a call fails (network error, non-success
\* status, or a malformed payload), the call returns the table of the cache
\* entry of its source if one exists at that moment, and null otherwise.
C1_FailureReturnsCachedOrNull ==
    [][\A c \in Calls :
          (Settles(c) /\ ~calls'[c].wellformed) =>
              LET k == KeyOf[calls[c].apiType]
              IN  IF HasEntry(cache, k)
                  THEN calls'[c].result = EntryOf(cache, k).data
                  ELSE calls'[c].result = JsNull]_vars

\* C2: a call made while the entry of its source is strictly younger than
\* one hour returns the table of that entry, issues no fetch and leaves the
\* cache as it is.
C2_FreshEntryServedWithoutFetch ==
    [][\A c \in Calls :
          Starts(c) =>
              LET k == KeyOf[calls'[c].apiType]
              IN  (HasEntry(cache, k) /\ clock' - EntryOf(cache, k).timestamp < OneHourMs)
                  => /\ calls'[c].pc = "done"
                     /\ calls'[c].result = EntryOf(cache, k).data
                     /\ ~calls'[c].fetched
                     /\ cache' = cache]_vars

\* a call was served from an entry aged one millisecond less than an hour
C2_Witness ==
    \E c \in Calls :
        /\ calls[c].pc = "done"
        /\ ~calls[c].fetched
        /\ calls[c].now - calls[c].cached.timestamp = OneHourMs - 1
        /\ calls[c].result = calls[c].cached.data

\* C3: when a call found no fresh entry and its fetch succeeds, the cache
\* afterwards holds exactly one entry for the source, made of the fetched
\* table and the timestamp taken by the call; the call returns that table and
\* the entries of the other source are as before.
C3_SuccessReplacesEntry ==
    [][\A c \in Calls :
          (Settles(c) /\ calls'[c].wellformed) =>
              LET k == KeyOf[calls[c].apiType]
              IN  /\ calls'[c].result \in GoodTables(calls[c].apiType)
                  /\ Cardinality(EntriesFor(cache', k)) = 1
                  /\ EntryOf(cache', k).data = calls'[c].result
                  /\ EntryOf(cache', k).timestamp = calls[c].now
                  /\ \A a \in ApiTypes \ {calls[c].apiType} :
                        /\ HasEntry(cache', KeyOf[a]) = HasEntry(cache, KeyOf[a])
                        /\ HasEntry(cache, KeyOf[a]) =>
                              EntryOf(cache', KeyOf[a]) = EntryOf(cache, KeyOf[a])]_vars

\* a call that found an expired entry has replaced it by its own table
C3_Witness ==
    \E c \in Calls :
        /\ calls[c].pc = "done"
        /\ calls[c].wellformed
        /\ Truthy(calls[c].cached)
        /\ calls[c].now - calls[c].cached.timestamp >= OneHourMs
        /\ calls[c].cached.data # calls[c].result
        /\ HasEntry(cache, KeyOf[calls[c].apiType])
        /\ EntryOf(cache, KeyOf[calls[c].apiType]).data = calls[c].result
        /\ EntryOf(cache, KeyOf[calls[c].apiType]).timestamp = calls[c].now

\* C4: a call started while the cache holds an entry of its source returns
\* a non-null table, and the table of that entry when its refresh fails.
C4_PopulatedNeverNull ==
    \A c \in Calls :
        (calls[c].pc = "done" /\ Truthy(calls[c].cached)) =>
            /\ calls[c].result # JsNull
            /\ (calls[c].fetched /\ ~calls[c].wellformed) =>
                   calls[c].result = calls[c].cached.data

\* two calls of one source overlap when one started while the other was
\* suspended at its fetch
Overlap(c, d) ==
    /\ c # d
    /\ calls[c].pc # "idle" /\ calls[d].pc # "idle"
    /\ calls[c].apiType = calls[d].apiType
    /\ (d \in calls[c].during \/ c \in calls[d].during)

\* C5: when the fetch of a call settles with a write after an overlapping
\* call of the same source has written, the cache holds exactly the table
\* and timestamp of the call that settled last.
C5_LastWriterWins ==
    [][\A c, d \in Calls :
          (/\ Overlap(c, d)
           /\ calls[d].pc = "done" /\ calls[d].wrote
           /\ Settles(c) /\ calls'[c].wrote) =>
              LET k == KeyOf[calls[c].apiType]
              IN  /\ Cardinality(EntriesFor(cache', k)) = 1
                  /\ EntryOf(cache', k).data = calls'[c].result
                  /\ EntryOf(cache', k).timestamp = calls[c].now]_vars

\* two overlapping calls have both written, and the cache holds the table
\* of the one that had started first (its fetch settled last)
C5_Witness ==
    \E c, d \in Calls :
        /\ Overlap(c, d)
        /\ calls[c].pc = "done" /\ calls[c].wrote
        /\ calls[d].pc = "done" /\ calls[d].wrote
        /\ calls[c].now < calls[d].now
        /\ calls[c].result # calls[d].result
        /\ HasEntry(cache, KeyOf[calls[c].apiType])
        /\ EntryOf(cache, KeyOf[calls[c].apiType]) =
               CacheEntry(calls[c].result, calls[c].now)

\* C6: the cache never holds two entries for one key, and the entry of a
\* key disappears only in a step of clearCache.
C6_OneEntryPerKeyNeverEvicted ==
    /\ [](\A a \in ApiTypes : Cardinality(EntriesFor(cache, KeyOf[a])) <= 1)
    /\ [][\A a \in ApiTypes :
             (HasEntry(cache, KeyOf[a]) /\ ~HasEntry(cache', KeyOf[a]))
                 => clears' # clears]_vars

\* a refresh of an expired entry has failed and the entry is still there
C6_Witness ==
    \E c \in Calls :
        /\ calls[c].pc = "done"
        /\ calls[c].fetched /\ ~calls[c].wrote
        /\ Truthy(calls[c].cached)
        /\ calls[c].now - calls[c].cached.timestamp >= OneHourMs
        /\ HasEntry(cache, KeyOf[calls[c].apiType])
        /\ EntryOf(cache, KeyOf[calls[c].apiType]) = calls[c].cached

-----------------------------------------------------------------------------
(* Properties of the conversion engine *)

Converted == convPc \in {"converted", "back"}

\* the canonical code of a currency identifier
Resolved(code) == normalizeCurrencyCode(code)

IsBase(code, t) == JsStr(Resolved(code)) = t.base

\* the resolved code is a key of table.rates
KeyPresent(code, t) ==
    /\ t.rates.type = "object"
    /\ \E e \in t.rates.entries : e[1] = Resolved(code)

TableRate(code, t) == (CHOOSE e \in t.rates.entries : e[1] = Resolved(code))[2].v

\* the rate of a code as the properties define it: 1 for the base, the
\* entry of table.rates otherwise
ClaimRate(code, t) == IF IsBase(code, t) THEN F(1, 1) ELSE TableRate(code, t)

\* the code is the base or has a usable (non-zero) rate in the table
HasRate(code, t) ==
    IsBase(code, t) \/ (KeyPresent(code, t) /\ TableRate(code, t)[1] # 0)

ClaimedValue(amount, from, to, t) ==
    fmul(fdiv(amount, ClaimRate(from, t)), ClaimRate(to, t))

\* C7: when the two identifiers resolve to the same code the amount comes
\* back exactly unchanged (stated here for the tables whose rates is a map
\* of numbers).
C7_SameCodeIsIdentity ==
    (/\ Converted
     /\ convArgs.rates.rates.type = "object"
     /\ Resolved(convArgs.fromCurrency) = Resolved(convArgs.toCurrency))
        => convResult = Returned(convArgs.amount)

\* C8: when either resolved code is neither the base nor a key of
\* table.rates the amount is returned unchanged without a failure, and
\* otherwise the converted value is returned.
C8_UnavailableIsIdentityElseConverted ==
    Converted =>
        LET t == convArgs.rates
            from == convArgs.fromCurrency
            to == convArgs.toCurrency
            available(code) == IsBase(code, t) \/ KeyPresent(code, t)
        IN  IF ~available(from) \/ ~available(to)
            THEN convResult = Returned(convArgs.amount)
            ELSE /\ ~convResult.threw
                 /\ convResult.value =
                        IF from = to THEN convArgs.amount
                        ELSE ClaimedValue(convArgs.amount, from, to, t)

WithinTolerance(y, x) ==
    /\ y[2] # 0
    /\ Abs(y[1] * x[2] - x[1] * y[2]) * Pow2(MantBits) <= 5 * Abs(x[1]) * y[2]

\* C10: converting an amount from A to B and the result back from B to A
\* gives the amount again, within the floating-point tolerance, whenever A
\* and B both resolve to a rate.
C10_RoundTrip ==
    (/\ convPc = "back"
     /\ HasRate(convArgs.fromCurrency, convArgs.rates)
     /\ HasRate(convArgs.toCurrency, convArgs.rates))
        => /\ ~convBack.threw
           /\ WithinTolerance(convBack.value, convArgs.amount)

\* a non-zero amount was converted between two different currencies, which
\* changed it, and came back within the tolerance
C10_Witness ==
    /\ convPc = "back"
    /\ HasRate(convArgs.fromCurrency, convArgs.rates)
    /\ HasRate(convArgs.toCurrency, convArgs.rates)
    /\ Resolved(convArgs.fromCurrency) # Resolved(convArgs.toCurrency)
    /\ convArgs.amount # F(0, 1)
    /\ convResult.value # convArgs.amount
    /\ ~convBack.threw
    /\ WithinTolerance(convBack.value, convArgs.amount)

-----------------------------------------------------------------------------
(* Properties of the pricing formatter *)

Formatted == fmtPc = "done"

FreeMarker == <<"ZH_MIANFEI">>

NotApplicable == <<"N/A">>

IsFreePrice(price) == price = F(-1, 1)

IsZeroPrice(price) == price[1] = 0 /\ price[2] # 0

\* no currency: undefined or the empty string
CurrencyMissing(currency) == currency \in {JsUndefined, JsStr("")}

CycleDaysOf(billingCycle) == billingCycle.v[1]

CycleNonPositive(billingCycle) ==
    billingCycle.type = "number" /\ CycleDaysOf(billingCycle) <= 0

CycleZeroOrMissing(billingCycle) ==
    billingCycle.type # "number" \/ CycleDaysOf(billingCycle) = 0

CycleNegative(billingCycle) ==
    billingCycle.type = "number" /\ CycleDaysOf(billingCycle) < 0

CyclePositive(billingCycle) ==
    billingCycle.type = "number" /\ CycleDaysOf(billingCycle) > 0

\* the price and the currency the call displays, and whether it shows the
\* currency (the default is to show it)
DisplayedPrice ==
    IF fmtArgs.options = JsUndefined \/ fmtArgs.options.convertedPrice = JsUndefined
    THEN fmtArgs.price ELSE fmtArgs.options.convertedPrice.v

DisplayedCurrency ==
    IF fmtArgs.options = JsUndefined \/ fmtArgs.options.targetCurrency = JsUndefined
    THEN fmtArgs.currency ELSE fmtArgs.options.targetCurrency

SymbolShown ==
    fmtArgs.options = JsUndefined \/ fmtArgs.options.showSymbol # JsBool(FALSE)

DisplayedPrefix == IF SymbolShown THEN StrTokens(DisplayedCurrency) ELSE << >>

DecimalDigits == {"0", "1", "2", "3", "4", "5", "6", "7", "8", "9"}

DigitValue(c) == CHOOSE d \in 0..9 : DigitChar(d) = c

\* the natural number written by a sequence of digits
RECURSIVE DigitsValue(_)
DigitsValue(ds) ==
    IF Len(ds) = 0 THEN 0
    ELSE 10 * DigitsValue(SubSeq(ds, 1, Len(ds) - 1)) + DigitValue(ds[Len(ds)])

\* text writes the number x with exactly two decimals: an optional minus
\* sign (present exactly for x < 0), one or more digits, a point and two
\* digits, the hundredths written being nearest to |x|
IsTwoDecimalsOf(text, x) ==
    LET digits == IF x[1] < 0 THEN Tail(text) ELSE text
        k == Len(digits)
    IN  /\ x[1] < 0 => (Len(text) > 0 /\ Head(text) = "-")
        /\ k >= 4
        /\ digits[k - 2] = "."
        /\ \A i \in (1..k) \ {k - 2} : digits[i] \in DecimalDigits
        /\ LET cents == 100 * DigitsValue(SubSeq(digits, 1, k - 3))
                         + DigitsValue(SubSeq(digits, k - 1, k))
           IN  2 * Abs(cents * x[2] - 100 * Abs(x[1])) <= x[2]

\* C11 as stated: the free marker for the price -1, the empty string for
\* the price 0, and otherwise N/A whenever the currency is missing or the
\* billing cycle is non-positive.
C11_FreeEmptyOrNotApplicable ==
    Formatted =>
        IF IsFreePrice(fmtArgs.price) THEN fmtResult = FreeMarker
        ELSE IF IsZeroPrice(fmtArgs.price) THEN fmtResult = << >>
        ELSE (CurrencyMissing(fmtArgs.currency) \/ CycleNonPositive(fmtArgs.billingCycle))
                => fmtResult = NotApplicable

\* C11 amended: the free marker for the price -1, the empty string for the
\* price 0, and otherwise N/A whenever the currency is missing or the
\* billing cycle is zero or missing.
C11_NotApplicableForZeroCycle ==
    Formatted =>
        IF IsFreePrice(fmtArgs.price) THEN fmtResult = FreeMarker
        ELSE IF IsZeroPrice(fmtArgs.price) THEN fmtResult = << >>
        ELSE (CurrencyMissing(fmtArgs.currency) \/ CycleZeroOrMissing(fmtArgs.billingCycle))
                => fmtResult = NotApplicable

\* a priced record with a currency and the billing cycle 0 was formatted
\* as N/A
C11_Witness ==
    /\ Formatted
    /\ ~IsFreePrice(fmtArgs.price) /\ ~IsZeroPrice(fmtArgs.price)
    /\ ~CurrencyMissing(fmtArgs.currency)
    /\ fmtArgs.billingCycle = JsNum(F(0, 1))
    /\ fmtResult = NotApplicable

\* the cycle label of the tolerance bands
BandLabel(n) ==
    IF n >= 28 /\ n <= 31 THEN <<"ZH_YUE">>
    ELSE IF n >= 89 /\ n <= 92 THEN <<"ZH_JI">>
    ELSE IF n >= 180 /\ n <= 184 THEN <<"ZH_BANNIAN">>
    ELSE IF n >= 364 /\ n <= 366 THEN <<"ZH_NIAN">>
    ELSE IF n >= 730 /\ n <= 732 THEN <<"ZH_LIANGNIAN">>
    ELSE IF n >= 1095 /\ n <= 1097 THEN <<"ZH_SANNIAN">>
    ELSE IF n >= 1825 /\ n <= 1827 THEN <<"ZH_WUNIAN">>
    ELSE IntToString(n) \o <<"ZH_TIAN">>

\* the result is the text before the last "/" followed by label
EndsWithLabel(text, label) ==
    /\ Len(text) > Len(label)
    /\ SubSeq(text, Len(text) - Len(label) + 1, Len(text)) = label
    /\ text[Len(text) - Len(label)] = "/"

\* C12: for a positive billing cycle (a priced record with a currency) the
\* result is the currency, the amount with two decimals, "/" and the label
\* of the band 28-31, 89-92, 180-184, 364-366, 730-732, 1095-1097 or
\* 1825-1827 the cycle lies in, or else the day count.
C12_CycleBandsLabel ==
    (/\ Formatted
     /\ ~IsFreePrice(fmtArgs.price) /\ ~IsZeroPrice(fmtArgs.price)
     /\ ~CurrencyMissing(fmtArgs.currency)
     /\ CyclePositive(fmtArgs.billingCycle))
        => LET label == BandLabel(CycleDaysOf(fmtArgs.billingCycle))
               amount == SubSeq(fmtResult, Len(DisplayedPrefix) + 1,
                                Len(fmtResult) - Len(label) - 1)
           IN  /\ EndsWithLabel(fmtResult, label)
               /\ SubSeq(fmtResult, 1, Len(DisplayedPrefix)) = DisplayedPrefix
               /\ IsTwoDecimalsOf(amount, DisplayedPrice)

\* C13: for a negative billing cycle, a price other than -1 and 0 and a
\* currency, the result is the amount with exactly two decimals and no
\* cycle label, behind the currency exactly when the symbol is shown.
C13_OneTimeAmountTwoDecimals ==
    (/\ Formatted
     /\ ~IsFreePrice(fmtArgs.price) /\ ~IsZeroPrice(fmtArgs.price)
     /\ ~CurrencyMissing(fmtArgs.currency)
     /\ CycleNegative(fmtArgs.billingCycle))
        => /\ Len(fmtResult) >= Len(DisplayedPrefix)
           /\ SubSeq(fmtResult, 1, Len(DisplayedPrefix)) = DisplayedPrefix
           /\ IsTwoDecimalsOf(SubSeq(fmtResult, Len(DisplayedPrefix) + 1, Len(fmtResult)),
                              DisplayedPrice)

\* the one-time price 0.125 was formatted without its currency as 0.13
C13_Witness ==
    /\ Formatted
    /\ fmtArgs.price = F(1, 8)
    /\ ~CurrencyMissing(fmtArgs.currency)
    /\ CycleNegative(fmtArgs.billingCycle)
    /\ ~SymbolShown
    /\ fmtArgs.options.convertedPrice = JsUndefined
    /\ fmtResult = <<"0", ".", "1", "3">>

-----------------------------------------------------------------------------
(* Properties of the remaining-value calculators *)

RvDone == rvPc = "done"

HasExpiryDate(a) == a.expiredAt.type = "string" /\ a.expiredAt.s = "date"

\* the free price, the zero price, no expiry or a cycle <= 0
Degenerate(a) ==
    \/ a.price = F(-1, 1)
    \/ a.price = F(0, 1)
    \/ a.expiredAt = JsNull
    \/ a.billingCycle <= 0

Priced(a) == a.price # F(-1, 1) /\ a.price # F(0, 1)

\* x <= y of two finite numbers
LessEq(x, y) == x[1] * y[2] <= y[1] * x[2]

\* max(0, floor((midnight(expiresAt) - midnight(now)) / oneDay))
CalendarDaysLeft(a, now) ==
    Max(0, (LocalMidnight(a.expiredAt.ms, a.tz) - LocalMidnight(now, a.tz)) \div OneDayMs)

\* y is x after two roundings to nearest, each with a relative error of at
\* most 1 / (2^MantBits + 1)
WithinTwoRoundings(y, x) ==
    LET u == Pow2(MantBits) + 1
    IN  /\ y[2] # 0
        /\ Abs(y[1] * x[2] - x[1] * y[2]) * u * u <= (2 * u + 1) * Abs(x[1]) * y[2]

\* days * price / divisor, exactly
Amortized(days, price, divisor) == <<days * price[1], price[2] * divisor>>

\* the canonical length of the band a cycle lies in, else the cycle
CanonicalDays(n) ==
    IF n >= 28 /\ n <= 31 THEN 30
    ELSE IF n >= 89 /\ n <= 92 THEN 90
    ELSE IF n >= 180 /\ n <= 184 THEN 180
    ELSE IF n >= 364 /\ n <= 366 THEN 365
    ELSE n

\* C14: calculateRemainingValue, calculateRemainingValueWithConversion and
\* the panel all yield 0, without an error, for the free price, the zero
\* price, a null expiry or a billing cycle <= 0.
C14_DegenerateIsZero ==
    (RvDone /\ Degenerate(rvArgs))
        => /\ rvResult.plain = F(0, 1)
           /\ rvResult.conv = Returned(F(0, 1))
           /\ rvResult.panel = F(0, 1)

\* C15: the day count behind every remaining value is
\* max(0, floor((midnight(expiresAt) - midnight(now)) / oneDay)).
C15_DaysByCalendarDay ==
    (RvDone /\ HasExpiryDate(rvArgs))
        => /\ rvResult.plainDays = CalendarDaysLeft(rvArgs, rvArgs.now)
           /\ rvResult.panelDays = CalendarDaysLeft(rvArgs, rvArgs.now)

\* C16 as stated: for every billing cycle >= 1 (a priced record with an
\* expiry date) the remaining value of calculateRemainingValue and of the
\* panel is remainingDays * price / billingCycle, the divisor being the raw
\* cycle also inside a tolerance band.
C16_RawCycleDivisor ==
    (RvDone /\ rvArgs.billingCycle >= 1 /\ Priced(rvArgs) /\ HasExpiryDate(rvArgs))
        => /\ WithinTwoRoundings(rvResult.plain,
                   Amortized(rvResult.plainDays, rvArgs.price, rvArgs.billingCycle))
           /\ WithinTwoRoundings(rvResult.panel,
                   Amortized(rvResult.panelDays, rvArgs.price, rvArgs.billingCycle))

\* C16 amended: for every billing cycle >= 1 calculateRemainingValue (for a
\* priced record with an expiry date) returns remainingDays * price /
\* billingCycle with the raw cycle as divisor, and the panel returns
\* remainingDays * price / d where d is the canonical length 30, 90, 180 or
\* 365 of the band 28-31, 89-92, 180-184 or 364-366 the cycle lies in and
\* the raw cycle outside the bands.
C16_RawDivisorPanelCanonical ==
    (RvDone /\ rvArgs.billingCycle >= 1)
        => /\ (Priced(rvArgs) /\ HasExpiryDate(rvArgs))
                  => WithinTwoRoundings(rvResult.plain,
                         Amortized(rvResult.plainDays, rvArgs.price, rvArgs.billingCycle))
           /\ WithinTwoRoundings(rvResult.panel,
                   Amortized(rvResult.panelDays, rvArgs.price,
                             CanonicalDays(rvArgs.billingCycle)))

\* a record of price 7 and cycle 28 with days left: calculateRemainingValue
\* charged 7/28 a day and the panel 7/30
C16_Witness ==
    /\ RvDone
    /\ rvArgs.price = F(7, 1) /\ rvArgs.billingCycle = 28
    /\ HasExpiryDate(rvArgs)
    /\ rvResult.plainDays = 2 /\ rvResult.panelDays = 2
    /\ rvResult.plain = F(1, 2)
    /\ rvResult.panel = fmul(fdiv(F(7, 1), F(30, 1)), F(2, 1))
    /\ rvResult.panel # rvResult.plain

\* C17: for a record with a positive price and cycle and an expiry date,
\* the remaining value never grows from one render to a later one, and it
\* is 0 at every instant from the start of the expiry's calendar day on.
C17_NonIncreasingThenZero ==
    [][(/\ rvPc' = "done"
        /\ rvArgs'.price[1] > 0 /\ rvArgs'.billingCycle > 0 /\ HasExpiryDate(rvArgs'))
          => /\ RvDone => /\ LessEq(rvResult'.plain, rvResult.plain)
                          /\ LessEq(rvResult'.panel, rvResult.panel)
             /\ rvArgs'.now >= LocalMidnight(rvArgs'.expiredAt.ms, rvArgs'.tz)
                   => /\ rvResult'.plain = F(0, 1)
                      /\ rvResult'.panel = F(0, 1)]_vars

-----------------------------------------------------------------------------
(* Properties of the renewal projection.  They are about the summary that  *)
(* buildRenewalSummary returns, and about the records it projects: those   *)
(* with a positive price, a positive cycle and an expiry date.             *)

RnReturned == rnPc = "done" /\ ~rnResult.threw

RnEvents == rnResult.value.events

Projected(n) ==
    /\ n.price[1] > 0
    /\ n.billing_cycle > 0
    /\ n.expired_at.type = "string" /\ n.expired_at.s = "date"

ExpiryOf(n) == n.expired_at.ms

PeriodOf(n) == n.billing_cycle * OneDayMs

\* the returned events of the node at position i
EventsOfNode(i) == SelectSeq(RnEvents, LAMBDA e : e.name = NodeNames[i])

EventDatesOfNode(i) == {RnEvents[j].date : j \in {k \in 1..Len(RnEvents) : RnEvents[k].name = NodeNames[i]}}

\* the occurrences expiry + j * period that lie in the window
OccurrencesInWindow(n, start, end) ==
    {t \in {ExpiryOf(n) + j * PeriodOf(n) : j \in 0..((end - ExpiryOf(n)) \div PeriodOf(n) + 1)} :
        start <= t /\ t <= end}

\* C18: every returned event lies in [start, end]; a record whose expiry E
\* lies in the window has exactly floor((end - E) / P) + 1 events and a
\* record whose expiry lies after end has none.
C18_EventsInsideWindowAndCounted ==
    RnReturned =>
        /\ \A j \in 1..Len(RnEvents) :
              rnArgs.start <= RnEvents[j].date /\ RnEvents[j].date <= rnArgs.end
        /\ \A i \in 1..Len(rnArgs.nodes) :
              LET n == rnArgs.nodes[i]
              IN  Projected(n) =>
                    /\ (rnArgs.start <= ExpiryOf(n) /\ ExpiryOf(n) <= rnArgs.end)
                          => Len(EventsOfNode(i)) =
                                 (rnArgs.end - ExpiryOf(n)) \div PeriodOf(n) + 1
                    /\ ExpiryOf(n) > rnArgs.end => Len(EventsOfNode(i)) = 0

\* a record expiring at the start of the window had three events, one of
\* them at the end of the window, and a record expiring after the window
\* had none
C18_Witness ==
    /\ RnReturned
    /\ Len(rnArgs.nodes) = 2
    /\ Projected(rnArgs.nodes[1]) /\ ExpiryOf(rnArgs.nodes[1]) = rnArgs.start
    /\ EventDatesOfNode(1) = {rnArgs.start, rnArgs.start + OneDayMs, rnArgs.end}
    /\ Len(EventsOfNode(1)) = 3
    /\ Projected(rnArgs.nodes[2]) /\ ExpiryOf(rnArgs.nodes[2]) > rnArgs.end
    /\ Len(EventsOfNode(2)) = 0

\* C19: for a record whose expiry precedes start, the events are exactly
\* the occurrences expiry + j * period in [start, end], an occurrence at
\* start itself included.
C19_EveryOccurrenceFromStart ==
    RnReturned =>
        \A i \in 1..Len(rnArgs.nodes) :
            LET n == rnArgs.nodes[i]
            IN  (Projected(n) /\ ExpiryOf(n) < rnArgs.start)
                    => /\ EventDatesOfNode(i) = OccurrencesInWindow(n, rnArgs.start, rnArgs.end)
                       /\ Len(EventsOfNode(i)) = Cardinality(EventDatesOfNode(i))

\* the amounts of the returned events added up node by node, in the order
\* of the node list
RECURSIVE AddAmounts(_, _)
AddAmounts(total, events) ==
    IF events = << >> THEN total
    ELSE AddAmounts(fadd(total, events[1].amount), Tail(events))

RECURSIVE AddNodes(_, _)
AddNodes(total, i) ==
    IF i > Len(rnArgs.nodes) THEN total
    ELSE AddNodes(AddAmounts(total, EventsOfNode(i)), i + 1)

\* C20: the returned events are in ascending order of date, across the
\* nodes, and total is the sum of the amounts of the returned events.
C20_SortedAndTotalled ==
    RnReturned =>
        /\ \A j, k \in 1..Len(RnEvents) : j < k => RnEvents[j].date <= RnEvents[k].date
        /\ \A j \in 1..Len(RnEvents) : \E i \in 1..Len(rnArgs.nodes) :
              RnEvents[j].name = NodeNames[i]
        /\ rnResult.value.total = AddNodes(F(0, 1), 1)

\* the events of the second node lie before and between those of the first,
\* and the total is that of the four events
C20_Witness ==
    /\ RnReturned
    /\ Len(RnEvents) = 4
    /\ RnEvents[1].name = "n2" /\ RnEvents[2].name = "n1"
    /\ RnEvents[3].name = "n2" /\ RnEvents[4].name = "n1"
    /\ RnEvents[1].date < RnEvents[2].date
    /\ RnEvents[1].amount # RnEvents[2].amount
    /\ rnResult.value.total =
          fadd(fadd(fadd(RnEvents[2].amount, RnEvents[4].amount), RnEvents[1].amount),
               RnEvents[3].amount)

\* the node list without the record at position i
WithoutNode(nodes, i) == SubSeq(nodes, 1, i - 1) \o SubSeq(nodes, i + 1, Len(nodes))

\* C21: a record with a non-positive price, a non-positive period or a
\* missing or unparseable expiry has no event, and the outcome of the run
\* (the events, the total, or the error of another record's conversion) is
\* the outcome of the run over the other records alone.
C21_SkippedRecordContributesNothing ==
    rnPc = "done" =>
        \A i \in 1..Len(rnArgs.nodes) :
            ~Projected(rnArgs.nodes[i]) =>
                /\ rnResult = buildRenewalSummary(rnArgs.start, rnArgs.end,
                                                  WithoutNode(rnArgs.nodes, i),
                                                  rnArgs.rates, "CNY")
                /\ RnReturned => Len(EventsOfNode(i)) = 0

\* a record with an unparseable expiry ahead of a record with two events:
\* the summary holds the two events of the second record and their total
C21_Witness ==
    /\ RnReturned
    /\ Len(rnArgs.nodes) = 2
    /\ rnArgs.nodes[1].expired_at = InvalidDateString
    /\ Projected(rnArgs.nodes[2])
    /\ Len(RnEvents) = 2
    /\ \A j \in 1..2 : RnEvents[j].name = "n2"
    /\ rnResult.value.total = fadd(RnEvents[1].amount, RnEvents[2].amount)

-----------------------------------------------------------------------------
(* The billing statistics.                                                 *)

Billed == rnPc = "billed" /\ ~rnResult.threw

YearPerNode == rnResult.value.yearPerNode

\* the renewal events of the node at position i between now and the end of
\* the year
YearEventsOfNode(i) ==
    nodeEvents(rnArgs.nodes[i], rnArgs.start, rnArgs.end, rnArgs.rates, "CNY").value

NodesWithYearEvents == {i \in 1..Len(rnArgs.nodes) : Len(YearEventsOfNode(i)) > 0}

\* x and y are sums of the same m positive terms, each addition rounded to
\* nearest
CloseSums(x, y, m) ==
    /\ x[2] # 0 /\ y[2] # 0
    /\ Abs(x[1] * y[2] - y[1] * x[2]) * Pow2(MantBits)
          <= 2 * m * Max(Abs(x[1]) * y[2], Abs(y[1]) * x[2])

\* C22: yearPerNode has exactly one entry per node with a renewal event
\* between now and the end of the year, carrying the node's name and the sum
\* of the node's events; distinct nodes have distinct entries; the list is
\* in descending order of amount and its amounts add up to
\* nodesRemainingYear.
C22_YearPerNodeOneEntryPerNode ==
    Billed =>
        /\ \E entryOf \in [NodesWithYearEvents -> 1..Len(YearPerNode)] :
              /\ \A i, j \in NodesWithYearEvents : i # j => entryOf[i] # entryOf[j]
              /\ \A k \in 1..Len(YearPerNode) : \E i \in NodesWithYearEvents : entryOf[i] = k
              /\ \A i \in NodesWithYearEvents :
                    /\ YearPerNode[entryOf[i]].name = rnArgs.nodes[i].name
                    /\ YearPerNode[entryOf[i]].amount = sumAmounts(F(0, 1), YearEventsOfNode(i))
        /\ \A j, k \in 1..Len(YearPerNode) :
              j < k => LessEq(YearPerNode[k].amount, YearPerNode[j].amount)
        /\ CloseSums(sumAmounts(F(0, 1), YearPerNode), rnResult.value.nodesRemainingYear,
                     Len(YearPerNode) + 4 * Len(rnArgs.nodes))

UniqueNames == \A i, j \in 1..Len(rnArgs.nodes) : rnArgs.nodes[i].name = rnArgs.nodes[j].name => i = j

C22_HoldsForUniqueNames == UniqueNames => C22_YearPerNodeOneEntryPerNode

-----------------------------------------------------------------------------
(* The persisted display currency.                                         *)

KeyStored == currencySwitch.localStorage # JsNull

\* C23: the selected display currency is the value stored under the storage
\* key when one is stored and the configured default otherwise; after
\* switchCurrency(v) the state and the store are both v, and after
\* resetToDefault the key is absent.
C23_SelectedIsStoredOrDefault ==
    /\ KeyStored => currencySwitch.currentCurrency = currencySwitch.localStorage.s
    /\ ~KeyStored => currencySwitch.currentCurrency = currencySwitch.defaultCurrency
    /\ currencySwitch.last.op = "switchCurrency"
          => /\ currencySwitch.currentCurrency = currencySwitch.last.value
             /\ currencySwitch.localStorage = JsStr(currencySwitch.last.value)
    /\ currencySwitch.last.op = "resetToDefault" => ~KeyStored

\* the empty string was switched to and the default changed afterwards: the
\* key is stored and the selected currency is the new default
C23_EmptyValueStored ==
    /\ currencySwitch.last.op = "defaultCurrency"
    /\ currencySwitch.localStorage = JsStr("")
    /\ currencySwitch.currentCurrency = currencySwitch.defaultCurrency

-----------------------------------------------------------------------------
(* The monetary displays.                                                  *)

Displayed == rvPc = "displayed"

NoRates == rvArgs.rates = JsNull

\* C24: without a rate table convertCurrency returns its amount, the two
\* formatters return the text of formatPrice and formatCurrency for the
\* given price in the record's own currency (with or without the symbol),
\* and the two calculators return what calculateRemainingValue and
\* calculateMonthlyRenewal return for the given price.
C24_NoRatesNoConversion ==
    (Displayed /\ NoRates) =>
        /\ rvResult.convert = Returned(rvArgs.price)
        /\ \E b \in BOOLEAN :
              rvResult.price =
                  Returned(formatPrice(rvArgs.price, JsStr(rvArgs.currency),
                                       JsNum(F(rvArgs.billingCycle, 1)),
                                       ShowSymbolOption(JsBool(b))))
        /\ \E b \in BOOLEAN :
              rvResult.amount =
                  Returned(formatCurrency(rvArgs.price, rvArgs.currency,
                                          ShowSymbolOption(JsBool(b))))
        /\ rvResult.remaining =
              Returned(calculateRemainingValue(rvArgs.price, rvArgs.billingCycle,
                                               rvArgs.expiredAt, rvArgs.now))
        /\ rvResult.monthly =
              Returned(calculateMonthlyRenewal(rvArgs.price, rvArgs.billingCycle))

\* a price of 7 USD shown for the target EUR without a rate table: 7 and
\* USD7.00, three days of a three-day cycle left
C24_Witness ==
    /\ Displayed /\ NoRates
    /\ rvArgs.price = F(7, 1) /\ rvArgs.currency = "USD"
    /\ rvArgs.targetCurrency = JsStr("EUR")
    /\ rvArgs.billingCycle = 3 /\ rvArgs.expiredAt = DateString(3 * msPerDay)
    /\ rvResult.convert = Returned(F(7, 1))
    /\ rvResult.amount = Returned(<<"USD", "7", ".", "0", "0">>)
    /\ rvResult.price = Returned(<<"USD", "7", ".", "0", "0", "/", "3", "ZH_TIAN">>)
    /\ rvResult.remaining.value[1] > 0
    /\ rvResult.monthly.value[1] > 0

-----------------------------------------------------------------------------
(* Conversion before amortisation and before summation.                    *)

RatesAvailable(rates) == rates # JsNull

\* the price of a record in the display currency
ConvertedPrice(a, rates) == convertCurrency(a.price, a.currency, "CNY", rates).value

\* total + term[i] + ... + term[n], added from left to right
RECURSIVE SumTerms(_, _, _)
SumTerms(total, i, terms) ==
    IF i > Len(terms) THEN total
    ELSE SumTerms(fadd(total, terms[i]), i + 1, terms)

\* total + amount, count times
RECURSIVE AddTimes(_, _, _)
AddTimes(total, amount, count) ==
    IF count = 0 THEN total ELSE AddTimes(fadd(total, amount), amount, count - 1)

\* the converted price of every node added once per renewal of the node
\* between now and end
RECURSIVE SumRenewals(_, _, _)
SumRenewals(total, i, end) ==
    IF i > Len(rnArgs.nodes) THEN total
    ELSE LET n == rnArgs.nodes[i]
             count == Len(nodeEvents(n, rnArgs.start, end, rnArgs.rates, "CNY").value)
         IN  SumRenewals(IF count = 0 THEN total
                         ELSE AddTimes(total, ConvertedPrice(n, rnArgs.rates), count),
                         i + 1, end)

\* C25: with a rate table, the remaining value of a priced record with an
\* expiry and a positive cycle is remainingDays * convert(price) / cycle, and
\* the four sums of the billing statistics add, record by record, amounts
\* computed from the converted price.
C25_ConvertThenAmortizeAndSum ==
    /\ (Displayed /\ RatesAvailable(rvArgs.rates) /\ ~rvResult.remaining.threw
        /\ Priced(rvArgs) /\ HasExpiryDate(rvArgs) /\ rvArgs.billingCycle > 0)
          => WithinTwoRoundings(rvResult.remaining.value,
                 Amortized(remainingDaysCeil(rvArgs.expiredAt, rvArgs.now),
                           convertCurrency(rvArgs.price, rvArgs.currency,
                               IF Truthy(rvArgs.targetCurrency) THEN rvArgs.targetCurrency.s
                               ELSE "CNY", rvArgs.rates).value,
                           rvArgs.billingCycle))
    /\ (Billed /\ RatesAvailable(rnArgs.rates) /\ Len(rnArgs.nodes) > 0)
          => LET nodes == rnArgs.nodes
                 bill == rnResult.value
             IN  /\ \A i \in 1..Len(nodes) :
                        ~convertCurrency(nodes[i].price, nodes[i].currency, "CNY",
                                         rnArgs.rates).threw
                 /\ bill.monthlyTotal =
                        SumTerms(F(0, 1), 1,
                            [i \in 1..Len(nodes) |->
                                calculateMonthlyRenewal(ConvertedPrice(nodes[i], rnArgs.rates),
                                                        nodes[i].billing_cycle)])
                 /\ bill.nodesSumPrice =
                        SumTerms(F(0, 1), 1,
                            [i \in 1..Len(nodes) |->
                                IF nodes[i].price[1] > 0
                                THEN ConvertedPrice(nodes[i], rnArgs.rates) ELSE F(0, 1)])
                 /\ bill.monthlyRemaining = SumRenewals(F(0, 1), 1, rnArgs.endOfMonth)
                 /\ bill.nodesRemainingYear = SumRenewals(F(0, 1), 1, rnArgs.end)

\* a node of 10 USD a day and a node of 3 CNY a day, with the table
\* 1 USD = 7 CNY: the first node is shown with a remaining value in CNY and
\* the sums hold the converted price of the first node
C25_Witness ==
    /\ Billed /\ Displayed
    /\ RatesAvailable(rnArgs.rates)
    /\ Len(rnArgs.nodes) = 2
    /\ rnArgs.nodes[1].currency = "USD" /\ rnArgs.nodes[1].price = F(10, 1)
    /\ rnArgs.nodes[1].billing_cycle = 2
    /\ rnArgs.nodes[2].currency = "CNY" /\ rnArgs.nodes[2].price = F(3, 1)
    /\ rvArgs.currency = "USD" /\ rvArgs.billingCycle = 2
    /\ ConvertedPrice(rnArgs.nodes[1], rnArgs.rates) = F(72, 1)
    /\ rvResult.remaining = Returned(F(36, 1))
    /\ rnResult.value.nodesSumPrice = F(76, 1)
    /\ rnResult.value.nodesRemainingYear[1] > 72
    /\ rnResult.value.monthlyTotal[1] > 0

-----------------------------------------------------------------------------
(* The amounts shown by RemainingValueDisplay and MonthlyRenewalDisplay.   *)

DispTarget == IF Truthy(rvArgs.targetCurrency) THEN rvArgs.targetCurrency.s ELSE "CNY"

DistinctCurrencies ==
    normalizeCurrencyCode(rvArgs.currency) # normalizeCurrencyCode(DispTarget)

\* the digits and the point of a text
AmountText(text) == SelectSeq(text, LAMBDA c : c \in DecimalDigits \cup {"."})

\* text shows the positive amount x with two decimals, x being known up to
\* eight roundings to nearest
ShowsAmount(text, x) ==
    LET digits == AmountText(text)
        k == Len(digits)
        u == Pow2(MantBits) + 1
    IN  /\ k >= 4
        /\ digits[k - 2] = "."
        /\ LET cents == 100 * DigitsValue(SubSeq(digits, 1, k - 3))
                         + DigitsValue(SubSeq(digits, k - 1, k))
           IN  2 * u * Abs(cents * x[2] - 100 * x[1]) <= 1600 * x[1] + u * x[2]

\* the value in the record's own currency, converted once
ConvertedOnce(value) == convertCurrency(value, rvArgs.currency, DispTarget, rvArgs.rates).value

\* C26: with a rate table and distinct source and target currencies, the
\* amount shown by RemainingValueDisplay is the remaining value in the
\* node's currency converted once to the target, and the amount shown by
\* MonthlyRenewalDisplay is the 30-day fee converted once.
C26_ShownAmountConvertedOnce ==
    (Displayed /\ RatesAvailable(rvArgs.rates) /\ DistinctCurrencies
     /\ ~rvResult.remainingShown.threw /\ ~rvResult.monthlyShown.threw)
        => /\ LET value == calculateRemainingValue(rvArgs.price, rvArgs.billingCycle,
                                                   rvArgs.expiredAt, rvArgs.now)
              IN  (rvResult.remainingShown.value.rendered /\ value[1] > 0)
                      => ShowsAmount(rvResult.remainingShown.value.text, ConvertedOnce(value))
           /\ LET value == calculateMonthlyRenewal(rvArgs.price, rvArgs.billingCycle)
              IN  (rvResult.monthlyShown.value.rendered /\ value[1] > 0)
                      => ShowsAmount(rvResult.monthlyShown.value.text, ConvertedOnce(value))

\* the amounts the two components compute before they format them are the
\* values converted once
C26_ComputedAmountConvertedOnce ==
    (Displayed /\ RatesAvailable(rvArgs.rates) /\ DistinctCurrencies
     /\ ~rvResult.remaining.threw /\ ~rvResult.monthly.threw)
        => /\ LET value == calculateRemainingValue(rvArgs.price, rvArgs.billingCycle,
                                                   rvArgs.expiredAt, rvArgs.now)
              IN  value[1] > 0
                      => ShowsAmount(toFixed(rvResult.remaining.value, 2), ConvertedOnce(value))
           /\ LET value == calculateMonthlyRenewal(rvArgs.price, rvArgs.billingCycle)
              IN  value[1] > 0
                      => ShowsAmount(toFixed(rvResult.monthly.value, 2), ConvertedOnce(value))

-----------------------------------------------------------------------------
(* The timestamp of a cache entry under overlapping calls.                 *)

\* the timestamp stored for a source
StoredTimestamp(m, apiType) == EntryOf(m, KeyOf[apiType]).timestamp

\* C27 as stated: a cache write never replaces an entry by one with an
\* older timestamp, and the stored timestamp is never earlier than the
\* start of a call of the source that has written its table.
C27_TimestampNeverDecreases ==
    [][/\ \A a \in ApiTypes :
             (HasEntry(cache, KeyOf[a]) /\ HasEntry(cache', KeyOf[a]))
                 => StoredTimestamp(cache', a) >= StoredTimestamp(cache, a)
       /\ \A c \in Calls :
             (calls'[c].pc = "done" /\ calls'[c].wrote
              /\ HasEntry(cache', KeyOf[calls'[c].apiType]))
                 => StoredTimestamp(cache', calls'[c].apiType) >= calls'[c].now]_vars

\* C27 amended: every cache write stores the moment its call started; the
\* stored timestamp decreases only when the writing call started before,
\* and settles after, an overlapping call that started later and wrote the
\* replaced entry; the stored timestamp is never later than the current
\* time.
C27_TimestampIsStartOfWriter ==
    /\ [][\A c \in Calls :
             (Settles(c) /\ calls'[c].wrote) =>
                 LET a == calls[c].apiType
                 IN  /\ HasEntry(cache', KeyOf[a])
                     /\ StoredTimestamp(cache', a) = calls[c].now
                     /\ (HasEntry(cache, KeyOf[a])
                         /\ StoredTimestamp(cache', a) < StoredTimestamp(cache, a))
                            => \E d \in Calls :
                                  /\ Overlap(c, d)
                                  /\ calls[d].pc = "done" /\ calls[d].wrote
                                  /\ c \in calls[d].during
                                  /\ calls[d].now = StoredTimestamp(cache, a)
                                  /\ calls[c].now < calls[d].now]_vars
    /\ [](\A a \in ApiTypes :
             HasEntry(cache, KeyOf[a]) => StoredTimestamp(cache, a) <= clock)

\* a call that started a full cache duration before an overlapping call
\* has settled after it: the entry it wrote is expired when it is written
C27_Witness ==
    \E c, d \in Calls :
        /\ calls[c].pc = "done" /\ calls[c].wrote
        /\ calls[d].pc = "done" /\ calls[d].wrote
        /\ c \in calls[d].during
        /\ calls[c].apiType = calls[d].apiType
        /\ calls[d].now - calls[c].now >= OneHourMs
        /\ HasEntry(cache, KeyOf[calls[c].apiType])
        /\ StoredTimestamp(cache, calls[c].apiType) = calls[c].now
        /\ clock - StoredTimestamp(cache, calls[c].apiType) >= OneHourMs

-----------------------------------------------------------------------------
(* The loading flag and the provider of the exchange-rate context.         *)

Mounted == context # << >>

\* C28: loading is true whenever a fetchRates call is suspended at the
\* service call, also when several calls overlap, and false when no call
\* is suspended.
C28_LoadingWhileSuspended ==
    Mounted => (context.loading <=> SuspendedFetches # {})

\* loading is false whenever no call is suspended
C28_NotLoadingWhenSettled ==
    (Mounted /\ SuspendedFetches = {}) => ~context.loading

\* two calls overlapped and one of them has settled: loading is false while
\* the other is still suspended
C28_OverlapClearsLoading ==
    /\ Mounted
    /\ Cardinality(SuspendedFetches) = 1
    /\ ~context.loading

\* the rates of the context were obtained from the provider
RatesFrom(apiType) == context.rates # JsNull /\ context.rates.api = apiType

\* call f settles with a table in this step
ResolvesWithTable(f) ==
    /\ context.fetches[f].pc = "await"
    /\ context'.fetches[f].pc = "idle"
    /\ context'.error = context.error

\* C29: once a provider is configured, the rates of the context eventually
\* are a table of that provider (unless the provider is changed again or
\* the fetch fails), and a call made for another provider that settles
\* later does not replace a table of the configured provider.
C29_RatesFollowProvider ==
    /\ \A a \in ApiTypes :
          (Mounted /\ context.currencyApi = a)
              ~> (context.currencyApi # a \/ RatesFrom(a) \/ context.error # JsNull)
    /\ [][\A f \in Fetches :
             (/\ ResolvesWithTable(f)
              /\ context.fetches[f].api # context.currencyApi
              /\ RatesFrom(context.currencyApi))
                 => context'.rates = context.rates]_vars

\* the provider was changed while the rates were fresh: the effect has run,
\* no call is suspended and the rates are those of the previous provider
C29_StaleProviderAtRest ==
    /\ Mounted
    /\ ~context.effect
    /\ SuspendedFetches = {}
    /\ context.error = JsNull
    /\ context.rates # JsNull /\ context.rates.api # context.currencyApi

-----------------------------------------------------------------------------
(* The timers of the Tips popover.                                         *)

TipsMounted == tips # << >> /\ tips.mounted

TipsUnmounted == tips # << >> /\ ~tips.mounted

\* C30: at most one timer is pending; a timer that fires is the one set by
\* the latest hover event; after unmount no timer is pending and isOpen is
\* not set any more.
C30_OneTimerLatestHover ==
    /\ [](tips # << >> => Cardinality(tips.pending) <= 1)
    /\ [](TipsUnmounted => tips.pending = {})
    /\ [][tips'.fired # tips.fired => tips'.fired = tips.hover]_vars
    /\ [][TipsUnmounted => tips'.isOpen = tips.isOpen]_vars

\* mouse-enter, mouse-leave and mouse-enter again: the timer of the third
\* event has fired and opened the popover, the two earlier ones never fired
C30_Witness ==
    /\ TipsMounted
    /\ tips.nextId = 4
    /\ tips.hover = 3 /\ tips.fired = 3
    /\ tips.isOpen
    /\ tips.pending = {}
    /\ tips.openTimer = JsNum(F(3, 1)) /\ tips.closeTimer = JsNull

====
